---------------------------- MODULE Spec2Model ----------------------------
(***************************************************************************)
(* A model of the techindicators library: the rolling-window engines      *)
(* (CalculateSMA, CalculateBollingerBands, CalculateRSI,                   *)
(* CalculateVolumeAnalysis), the detectors built on them and the two       *)
(* fusion layers (ComprehensiveAnalysis, UltimateAnalysis).                *)
(*                                                                         *)
(* The library is a set of pure functions of a caller-owned series of     *)
(* OHLCV bars.  A state of the model is one series together with the last *)
(* call made on it and what that call returned.  Go's float64 values are   *)
(* modelled exactly: a finite value is a rational in lowest terms, and the *)
(* results of x/0 are the IEEE values +Inf, -Inf and NaN.  Rounding is not *)
(* modelled.  Go slices are 0-based; the operators keep Go's indices and   *)
(* At(s, i) reads element i.                                               *)
(***************************************************************************)
EXTENDS Integers, Sequences, FiniteSets, TLC

VARIABLES dataset, call, result

vars == <<dataset, call, result>>

-----------------------------------------------------------------------------
(* float64 arithmetic, exact.  [n, d] with d > 0 is the rational n/d in    *)
(* lowest terms; d = 0 is +Inf (n = 1), -Inf (n = -1) or NaN (n = 0).      *)

Abs(x) == IF x < 0 THEN -x ELSE x

RECURSIVE GCD(_, _)
GCD(a, b) == IF b = 0 THEN a ELSE GCD(b, a % b)

Frac(n, d) ==
    LET g == GCD(Abs(n), Abs(d))
        s == IF d < 0 THEN -1 ELSE 1
    IN  [n |-> (s * n) \div g, d |-> (s * d) \div g]

F(i) == [n |-> i, d |-> 1]

NaN == [n |-> 0, d |-> 0]

IsNaN(x) == x.d = 0 /\ x.n = 0

IsFinite(x) == x.d > 0

Sign(i) == IF i > 0 THEN 1 ELSE IF i < 0 THEN -1 ELSE 0

FNeg(x) == [n |-> -x.n, d |-> x.d]

FAdd(x, y) ==
    IF x.d > 0 /\ y.d > 0
    THEN LET g == GCD(x.d, y.d)
         IN  Frac(x.n * (y.d \div g) + y.n * (x.d \div g), (x.d \div g) * y.d)
    ELSE IF x.d > 0 THEN y
    ELSE IF y.d > 0 THEN x
    ELSE IF x.n = y.n THEN x ELSE NaN

FSub(x, y) == FAdd(x, FNeg(y))

FMul(x, y) ==
    IF x.d > 0 /\ y.d > 0
    THEN LET g1 == GCD(Abs(x.n), y.d)
             g2 == GCD(Abs(y.n), x.d)
         IN  [n |-> (x.n \div g1) * (y.n \div g2), d |-> (x.d \div g2) * (y.d \div g1)]
    ELSE [n |-> Sign(x.n) * Sign(y.n), d |-> 0]

\* x / y as IEEE 754 defines it: a finite x over zero is an infinity, 0/0 is NaN.
FDiv(x, y) ==
    IF x.d > 0 /\ y.d > 0
    THEN IF y.n = 0 THEN [n |-> Sign(x.n), d |-> 0]
         ELSE FMul(x, [n |-> Sign(y.n) * y.d, d |-> Abs(y.n)])
    ELSE IF x.d > 0 THEN IF IsNaN(y) THEN NaN ELSE F(0)
    ELSE IF y.d > 0 THEN [n |-> x.n * (IF y.n < 0 THEN -1 ELSE 1), d |-> 0]
    ELSE NaN

\* Every comparison with NaN is false.
FLt(x, y) ==
    LET g == IF x.d = 0 /\ y.d = 0 THEN 1 ELSE GCD(x.d, y.d)
    IN  ~IsNaN(x) /\ ~IsNaN(y) /\ x.n * (y.d \div g) < y.n * (x.d \div g)

FGt(x, y) == FLt(y, x)

FEq(x, y) == ~IsNaN(x) /\ ~IsNaN(y) /\ x = y

FLe(x, y) == FLt(x, y) \/ FEq(x, y)

FGe(x, y) == FLe(y, x)

FAbs(x) == [n |-> Abs(x.n), d |-> x.d]

-----------------------------------------------------------------------------
(* types.go and the PriceType enumeration                                  *)

ClosePrice == 0
OpenPrice == 1
HighPrice == 2
LowPrice == 3
TypicalPrice == 4
WeightedPrice == 5

At(s, i) == s[i + 1]

Bar(t, o, h, l, c, v) ==
    [Timestamp |-> t, Open |-> o, High |-> h, Low |-> l, Close |-> c, Volume |-> v]

ExtractPrice(o, priceType) ==
    CASE priceType = OpenPrice -> F(o.Open)
      [] priceType = ClosePrice -> F(o.Close)
      [] priceType = HighPrice -> F(o.High)
      [] priceType = LowPrice -> F(o.Low)
      [] priceType = TypicalPrice -> FDiv(F(o.High + o.Low + o.Close), F(3))
      [] priceType = WeightedPrice -> FDiv(F(o.High + o.Low + 2 * o.Close), F(4))
      [] OTHER -> F(o.Close)

\* Timestamp.Format("2006-01-02T15:04:05Z"): the layout prints whole seconds
\* only.  A Timestamp of the model counts half-seconds.
Format(t) == t \div 2

NoError == "nil"

-----------------------------------------------------------------------------
(* Moving Average Engine                                                   *)

RECURSIVE SumPrices(_, _, _, _)
\* sum of the selected price over bars j .. i, in the order the loop adds them
SumPrices(ds, j, i, priceType) ==
    IF j > i THEN F(0)
    ELSE FAdd(SumPrices(ds, j, i - 1, priceType), ExtractPrice(At(ds, i), priceType))

SMAPointDropsOldest(ds, i, period, priceType) ==
    [Timestamp |-> Format(At(ds, i).Timestamp),
     Value |-> FDiv(SumPrices(ds, i - period + 2, i, priceType), F(period))]

SMAPoint(ds, i, period, priceType) ==
    [Timestamp |-> Format(At(ds, i).Timestamp),
     Value |-> FDiv(SumPrices(ds, i - period + 1, i, priceType), F(period))]

\* an engine that shortens a period longer than the series instead of
\* turning it down
CalculateSMAClampsPeriod(ds, period, priceType) ==
    IF Len(ds) = 0 THEN [res |-> <<>>, err |-> "dataset is empty"]
    ELSE IF period <= 0 THEN [res |-> <<>>, err |-> "period must be greater than 0"]
    ELSE IF period > Len(ds)
    THEN [res |-> <<SMAPoint(ds, Len(ds) - 1, Len(ds), priceType)>>,
          err |-> "period cannot be greater than dataset length"]
    ELSE [res |-> [k \in 1 .. (Len(ds) - period + 1) |->
                      SMAPoint(ds, k + period - 2, period, priceType)],
          err |-> NoError]

CalculateSMA(ds, period, priceType) ==
    IF Len(ds) = 0 THEN [res |-> <<>>, err |-> "dataset is empty"]
    ELSE IF period <= 0 THEN [res |-> <<>>, err |-> "period must be greater than 0"]
    ELSE IF period > Len(ds)
    THEN [res |-> <<>>, err |-> "period cannot be greater than dataset length"]
    ELSE [res |-> [k \in 1 .. (Len(ds) - period + 1) |->
                      SMAPoint(ds, k + period - 2, period, priceType)],
          err |-> NoError]

Last(xs) == xs[Len(xs)]

LatestSMAOf(smaResults) ==
    IF smaResults.err # NoError THEN [val |-> F(0), err |-> smaResults.err]
    ELSE IF Len(smaResults.res) = 0
    THEN [val |-> F(0), err |-> "no SMA results calculated"]
    ELSE [val |-> Last(smaResults.res).Value, err |-> NoError]

GetLatestSMA(ds, period, priceType) == LatestSMAOf(CalculateSMA(ds, period, priceType))

PriceAboveOf(ds, latestSMA) ==
    IF latestSMA.err # NoError THEN [val |-> FALSE, err |-> latestSMA.err]
    ELSE [val |-> FGt(ExtractPrice(Last(ds), ClosePrice), latestSMA.val), err |-> NoError]

IsPriceAboveSMA(ds, period, priceType) ==
    IF Len(ds) = 0 THEN [val |-> FALSE, err |-> "dataset is empty"]
    ELSE PriceAboveOf(ds, GetLatestSMA(ds, period, priceType))

\* the comparison with a strict test on the previous pair
CrossoverOfStrictlyBelow(fastPrevious, slowPrevious, fastCurrent, slowCurrent) ==
    IF FLt(fastPrevious, slowPrevious) /\ FGt(fastCurrent, slowCurrent)
    THEN "bullish_crossover"
    ELSE IF FGt(fastPrevious, slowPrevious) /\ FLt(fastCurrent, slowCurrent)
    THEN "bearish_crossover"
    ELSE "no_signal"

CrossoverOf(fastPrevious, slowPrevious, fastCurrent, slowCurrent) ==
    IF FLe(fastPrevious, slowPrevious) /\ FGt(fastCurrent, slowCurrent)
    THEN "bullish_crossover"
    ELSE IF FGe(fastPrevious, slowPrevious) /\ FLt(fastCurrent, slowCurrent)
    THEN "bearish_crossover"
    ELSE "no_signal"

CrossoverOfSMAs(fastSMA, slowSMA) ==
    IF fastSMA.err # NoError THEN [val |-> "", err |-> fastSMA.err]
    ELSE IF slowSMA.err # NoError THEN [val |-> "", err |-> slowSMA.err]
    ELSE IF Len(fastSMA.res) < 2 \/ Len(slowSMA.res) < 2
    THEN [val |-> "no_signal", err |-> NoError]
    ELSE [val |-> CrossoverOf(fastSMA.res[Len(fastSMA.res) - 1].Value,
                              slowSMA.res[Len(slowSMA.res) - 1].Value,
                              Last(fastSMA.res).Value,
                              Last(slowSMA.res).Value),
          err |-> NoError]

\* a crossover that puts the two periods in order itself
SMACrossoverSortsPeriods(ds, fastPeriod, slowPeriod, priceType) ==
    IF fastPeriod = slowPeriod
    THEN [val |-> "", err |-> "fast period must be less than slow period"]
    ELSE IF Len(ds) < slowPeriod + 1 \/ Len(ds) < fastPeriod + 1
    THEN [val |-> "", err |-> "insufficient data for crossover analysis"]
    ELSE IF fastPeriod < slowPeriod
    THEN CrossoverOfSMAs(CalculateSMA(ds, fastPeriod, priceType),
                         CalculateSMA(ds, slowPeriod, priceType))
    ELSE CrossoverOfSMAs(CalculateSMA(ds, slowPeriod, priceType),
                         CalculateSMA(ds, fastPeriod, priceType))

SMACrossover(ds, fastPeriod, slowPeriod, priceType) ==
    IF fastPeriod >= slowPeriod
    THEN [val |-> "", err |-> "fast period must be less than slow period"]
    ELSE IF Len(ds) < slowPeriod + 1
    THEN [val |-> "", err |-> "insufficient data for crossover analysis"]
    ELSE CrossoverOfSMAs(CalculateSMA(ds, fastPeriod, priceType),
                         CalculateSMA(ds, slowPeriod, priceType))

-----------------------------------------------------------------------------
(* Momentum Oscillator Engine                                              *)

Prices(ds, priceType) == [k \in 1 .. Len(ds) |-> ExtractPrice(ds[k], priceType)]

\* change i (Go index i-1 of gains/losses) is prices[i] - prices[i-1]
Change(prices, i) == FSub(At(prices, i), At(prices, i - 1))

Gains(prices) ==
    [k \in 1 .. (Len(prices) - 1) |->
        IF FGt(Change(prices, k), F(0)) THEN Change(prices, k) ELSE F(0)]

LossesKeepSign(prices) ==
    [k \in 1 .. (Len(prices) - 1) |->
        IF FGt(Change(prices, k), F(0)) THEN F(0) ELSE Change(prices, k)]

Losses(prices) ==
    [k \in 1 .. (Len(prices) - 1) |->
        IF FGt(Change(prices, k), F(0)) THEN F(0) ELSE FNeg(Change(prices, k))]

RECURSIVE SumFirst(_, _)
SumFirst(xs, count) ==
    IF count = 0 THEN F(0) ELSE FAdd(SumFirst(xs, count - 1), At(xs, count - 1))

RSIFromAveragesExact100(avgGain, avgLoss) ==
    IF FEq(avgLoss, F(0)) THEN F(100)
    ELSE FSub(F(100), FDiv(F(100), FAdd(F(1), FDiv(avgGain, avgLoss))))

\* a value of 50 when neither gains nor losses were seen
RSIFromAveragesFlatIs50(avgGain, avgLoss) ==
    IF FEq(avgLoss, F(0)) /\ FEq(avgGain, F(0)) THEN F(50)
    ELSE IF FEq(avgLoss, F(0)) THEN FSub(F(100), FDiv(F(100), F(101)))
    ELSE FSub(F(100), FDiv(F(100), FAdd(F(1), FDiv(avgGain, avgLoss))))

\* rs := avgGain / avgLoss; if avgLoss == 0 { rs = 100 }; rsi := 100 - 100/(1+rs)
RSIFromAverages(avgGain, avgLoss) ==
    LET ratio == FDiv(avgGain, avgLoss)
        rs == IF FEq(avgLoss, F(0)) THEN F(100) ELSE ratio
    IN  FSub(F(100), FDiv(F(100), FAdd(F(1), rs)))

getRSISignal(rsi) ==
    IF FGe(rsi, F(80)) THEN "extreme_overbought"
    ELSE IF FGe(rsi, F(70)) THEN "overbought"
    ELSE IF FLe(rsi, F(20)) THEN "extreme_oversold"
    ELSE IF FLe(rsi, F(30)) THEN "oversold"
    ELSE "neutral"

\* a smoothing that weighs the new sample like the old average
WilderHalves(avg, sample, period) == FDiv(FAdd(avg, sample), F(2))

Wilder(avg, sample, period) ==
    FDiv(FAdd(FMul(avg, F(period - 1)), sample), F(period))

RSIPoint(ds, i, avgGain, avgLoss) ==
    LET rsi == RSIFromAverages(avgGain, avgLoss)
    IN  [Timestamp |-> Format(At(ds, i).Timestamp), Value |-> rsi,
         Signal |-> getRSISignal(rsi)]

RECURSIVE RSILoop(_, _, _, _, _, _, _, _)
\* the loop "for i := period; i < len(gains); i++" with its running averages
RSILoop(ds, gains, losses, period, i, avgGain, avgLoss, results) ==
    IF i >= Len(gains) THEN results
    ELSE LET g == Wilder(avgGain, At(gains, i), period)
             l == Wilder(avgLoss, At(losses, i), period)
         IN  RSILoop(ds, gains, losses, period, i + 1, g, l,
                     Append(results, RSIPoint(ds, i + 1, g, l)))

CalculateRSI(ds, period, priceType) ==
    IF Len(ds) = 0 THEN [res |-> <<>>, err |-> "dataset is empty"]
    ELSE IF period <= 0 THEN [res |-> <<>>, err |-> "period must be greater than 0"]
    ELSE IF period >= Len(ds)
    THEN [res |-> <<>>, err |-> "period must be less than dataset length"]
    ELSE LET prices == Prices(ds, priceType)
             gains == Gains(prices)
             losses == Losses(prices)
         IN  IF Len(gains) < period
             THEN [res |-> <<>>, err |-> "insufficient data"]
             ELSE LET avgGain == FDiv(SumFirst(gains, period), F(period))
                      avgLoss == FDiv(SumFirst(losses, period), F(period))
                  IN  [res |-> RSILoop(ds, gains, losses, period, period, avgGain,
                                       avgLoss, <<RSIPoint(ds, period, avgGain, avgLoss)>>),
                       err |-> NoError]

\* the zero value RSIResult{}
NoRSIResult == [Timestamp |-> 0, Value |-> F(0), Signal |-> ""]

LatestRSIOf(rsiResults) ==
    IF rsiResults.err # NoError THEN [val |-> NoRSIResult, err |-> rsiResults.err]
    ELSE IF Len(rsiResults.res) = 0
    THEN [val |-> NoRSIResult, err |-> "no RSI results calculated"]
    ELSE [val |-> Last(rsiResults.res), err |-> NoError]

GetLatestRSI(ds, period, priceType) == LatestRSIOf(CalculateRSI(ds, period, priceType))

RSIDivergence(type, strength, confidence) ==
    [Type |-> type, Strength |-> strength, Confidence |-> confidence]

LastN(xs, count) == SubSeq(xs, Len(xs) - count + 1, Len(xs))

RECURSIVE Extremes(_, _, _)
\* the interior indices i of recentRSI, in order, whose value is strictly
\* above (dir = 1) or strictly below (dir = -1) both neighbours
Extremes(recentRSI, i, dir) ==
    IF i >= Len(recentRSI) - 1 THEN <<>>
    ELSE LET v == At(recentRSI, i).Value
             prevRSI == At(recentRSI, i - 1).Value
             nextRSI == At(recentRSI, i + 1).Value
             hit == IF dir = 1 THEN FGt(v, prevRSI) /\ FGt(v, nextRSI)
                    ELSE FLt(v, prevRSI) /\ FLt(v, nextRSI)
         IN  (IF hit THEN <<i>> ELSE <<>>) \o Extremes(recentRSI, i + 1, dir)

DivergenceConfidence(lastRSI, prevRSI) ==
    LET confidence == FDiv(FAbs(FSub(lastRSI, prevRSI)), F(10))
    IN  IF FGt(confidence, F(1)) THEN F(1) ELSE confidence

\* the analysis with the troughs looked at before the peaks
DivergenceBetweenTroughsFirst(recentRSI, recentPrices, highs, lows) ==
    IF /\ Len(lows) >= 2
       /\ FLt(ExtractPrice(At(recentPrices, lows[Len(lows)]), ClosePrice),
              ExtractPrice(At(recentPrices, lows[Len(lows) - 1]), ClosePrice))
       /\ FGt(At(recentRSI, lows[Len(lows)]).Value,
              At(recentRSI, lows[Len(lows) - 1]).Value)
    THEN [val |-> RSIDivergence("bullish", "regular",
                      DivergenceConfidence(At(recentRSI, lows[Len(lows)]).Value,
                                           At(recentRSI, lows[Len(lows) - 1]).Value)),
          err |-> NoError]
    ELSE IF /\ Len(highs) >= 2
            /\ FGt(ExtractPrice(At(recentPrices, highs[Len(highs)]), ClosePrice),
                   ExtractPrice(At(recentPrices, highs[Len(highs) - 1]), ClosePrice))
            /\ FLt(At(recentRSI, highs[Len(highs)]).Value,
                   At(recentRSI, highs[Len(highs) - 1]).Value)
    THEN [val |-> RSIDivergence("bearish", "regular",
                      DivergenceConfidence(At(recentRSI, highs[Len(highs)]).Value,
                                           At(recentRSI, highs[Len(highs) - 1]).Value)),
          err |-> NoError]
    ELSE [val |-> RSIDivergence("none", "none", F(0)), err |-> NoError]

\* highs and lows hold the indices, in recentRSI, of the RSI peaks and troughs
DivergenceBetween(recentRSI, recentPrices, highs, lows) ==
    IF /\ Len(highs) >= 2
       /\ FGt(ExtractPrice(At(recentPrices, highs[Len(highs)]), ClosePrice),
              ExtractPrice(At(recentPrices, highs[Len(highs) - 1]), ClosePrice))
       /\ FLt(At(recentRSI, highs[Len(highs)]).Value,
              At(recentRSI, highs[Len(highs) - 1]).Value)
    THEN [val |-> RSIDivergence("bearish", "regular",
                      DivergenceConfidence(At(recentRSI, highs[Len(highs)]).Value,
                                           At(recentRSI, highs[Len(highs) - 1]).Value)),
          err |-> NoError]
    ELSE IF /\ Len(lows) >= 2
            /\ FLt(ExtractPrice(At(recentPrices, lows[Len(lows)]), ClosePrice),
                   ExtractPrice(At(recentPrices, lows[Len(lows) - 1]), ClosePrice))
            /\ FGt(At(recentRSI, lows[Len(lows)]).Value,
                   At(recentRSI, lows[Len(lows) - 1]).Value)
    THEN [val |-> RSIDivergence("bullish", "regular",
                      DivergenceConfidence(At(recentRSI, lows[Len(lows)]).Value,
                                           At(recentRSI, lows[Len(lows) - 1]).Value)),
          err |-> NoError]
    ELSE [val |-> RSIDivergence("none", "none", F(0)), err |-> NoError]

DivergenceOf(ds, rsiResults, lookback) ==
    IF rsiResults.err # NoError
    THEN [val |-> RSIDivergence("", "", F(0)), err |-> rsiResults.err]
    ELSE IF Len(rsiResults.res) < lookback \/ Len(ds) < lookback
    THEN [val |-> RSIDivergence("none", "insufficient_data", F(0)), err |-> NoError]
    ELSE DivergenceBetween(LastN(rsiResults.res, lookback), LastN(ds, lookback),
                           Extremes(LastN(rsiResults.res, lookback), 1, 1),
                           Extremes(LastN(rsiResults.res, lookback), 1, -1))

\* the detector using the lookback as it was asked for
DetectRSIDivergenceAnyLookback(ds, period, priceType, lookback) ==
    DivergenceOf(ds, CalculateRSI(ds, period, priceType), lookback)

DetectRSIDivergence(ds, period, priceType, lookback) ==
    DivergenceOf(ds, CalculateRSI(ds, period, priceType),
                 IF lookback < 5 THEN 5 ELSE lookback)

RSIExtremeHigh == "extreme_high"
RSIOverbought == "overbought"
RSIExtremeLow == "extreme_low"
RSIOversold == "oversold"
RSINeutral == "neutral"

RSIConditionOf(value) ==
    IF FGe(value, F(80)) THEN RSIExtremeHigh
    ELSE IF FGe(value, F(70)) THEN RSIOverbought
    ELSE IF FLe(value, F(20)) THEN RSIExtremeLow
    ELSE IF FLe(value, F(30)) THEN RSIOversold
    ELSE RSINeutral

MomentumOf(rsiResults) ==
    IF Len(rsiResults) >= 3
    THEN LET recent == LastN(rsiResults, 3)
         IN  IF FGt(recent[3].Value, recent[2].Value) /\ FGt(recent[2].Value, recent[1].Value)
             THEN "strengthening"
             ELSE IF /\ FLt(recent[3].Value, recent[2].Value)
                     /\ FLt(recent[2].Value, recent[1].Value)
             THEN "weakening"
             ELSE "neutral"
    ELSE "neutral"

RSISignalOf(condition, divergence, momentum, value) ==
    IF condition = RSIExtremeLow /\ divergence.Type = "bullish" THEN "strong_buy"
    ELSE IF condition = RSIExtremeHigh /\ divergence.Type = "bearish" THEN "strong_sell"
    ELSE IF condition = RSIOversold /\ momentum = "strengthening" THEN "buy"
    ELSE IF condition = RSIOverbought /\ momentum = "weakening" THEN "sell"
    ELSE IF FGt(value, F(50)) /\ momentum = "strengthening" THEN "bullish"
    ELSE IF FLt(value, F(50)) /\ momentum = "weakening" THEN "bearish"
    ELSE "hold"

\* the zero value RSIStrategy{}
NoRSIStrategy ==
    [Current |-> NoRSIResult, Condition |-> "",
     Divergence |-> RSIDivergence("", "", F(0)), Signal |-> "", Momentum |-> ""]

RSIStrategyOf(currentRSI, divergence, rsiResults) ==
    IF currentRSI.err # NoError THEN [val |-> NoRSIStrategy, err |-> currentRSI.err]
    ELSE IF divergence.err # NoError THEN [val |-> NoRSIStrategy, err |-> divergence.err]
    ELSE IF rsiResults.err # NoError THEN [val |-> NoRSIStrategy, err |-> rsiResults.err]
    ELSE [val |-> [Current |-> currentRSI.val,
                   Condition |-> RSIConditionOf(currentRSI.val.Value),
                   Divergence |-> divergence.val,
                   Signal |-> RSISignalOf(RSIConditionOf(currentRSI.val.Value),
                                          divergence.val, MomentumOf(rsiResults.res),
                                          currentRSI.val.Value),
                   Momentum |-> MomentumOf(rsiResults.res)],
          err |-> NoError]

AnalyzeRSIStrategy(ds, period, priceType) ==
    RSIStrategyOf(GetLatestRSI(ds, period, priceType),
                  DetectRSIDivergence(ds, period, priceType, 10),
                  CalculateRSI(ds, period, priceType))

-----------------------------------------------------------------------------
(* Values that involve math.Sqrt.  [a, b, r] is a + b * sqrt(r) with a and *)
(* b rational and r a square-free integer (r = 1 and b = 0 for a rational  *)
(* value).  Two such values are added only when their radicals agree; the  *)
(* series the checks run over never add others.                            *)

RECURSIVE SquarePart(_, _, _)
\* the largest s >= best with s*s dividing m, searching upward from s
SquarePart(m, s, best) ==
    IF s * s > m THEN best
    ELSE SquarePart(m, s + 1, IF m % (s * s) = 0 THEN s ELSE best)

Real(a, b, r) ==
    IF b.n = 0 \/ r = 1 THEN [a |-> FAdd(a, IF r = 1 THEN b ELSE F(0)), b |-> F(0), r |-> 1]
    ELSE [a |-> a, b |-> b, r |-> r]

RF(x) == [a |-> x, b |-> F(0), r |-> 1]

\* math.Sqrt of a finite rational q = n/d >= 0 in lowest terms: with
\* n = sn*sn*rn and d = sd*sd*rd, sqrt(n/d) = sn/(sd*rd) * sqrt(rn*rd)
Sqrt(q) ==
    LET sn == SquarePart(q.n, 1, 1)
        sd == SquarePart(q.d, 1, 1)
        rn == q.n \div (sn * sn)
        rd == q.d \div (sd * sd)
    IN  IF q.n = 0 THEN RF(F(0)) ELSE Real(F(0), Frac(sn, sd * rd), rn * rd)

RAdd(x, y) ==
    IF x.b.n = 0 THEN Real(FAdd(x.a, y.a), y.b, y.r)
    ELSE IF y.b.n = 0 THEN Real(FAdd(x.a, y.a), x.b, x.r)
    ELSE [k \in {x.r} |-> Real(FAdd(x.a, y.a), FAdd(x.b, y.b), x.r)][y.r]

RScale(q, x) == Real(FMul(q, x.a), FMul(q, x.b), x.r)

RNeg(x) == RScale(F(-1), x)

RSub(x, y) == RAdd(x, RNeg(y))

\* the sign of a + b*sqrt(r), decided by comparing a*a with b*b*r
RSign(x) ==
    LET sa == Sign(x.a.n)
        sb == Sign(x.b.n)
        a2 == FMul(x.a, x.a)
        b2r == FMul(FMul(x.b, x.b), F(x.r))
    IN  IF sb = 0 THEN sa
        ELSE IF sa = 0 \/ sa = sb THEN sb
        ELSE IF FGt(a2, b2r) THEN sa
        ELSE IF FLt(a2, b2r) THEN sb
        ELSE 0

RLt(x, y) == RSign(RSub(x, y)) < 0
RGt(x, y) == RSign(RSub(x, y)) > 0
RLe(x, y) == RSign(RSub(x, y)) <= 0
RGe(x, y) == RSign(RSub(x, y)) >= 0
REq(x, y) == RSign(RSub(x, y)) = 0

-----------------------------------------------------------------------------
(* Volatility Band Engine.  The functions take candles: a candle is a bar, *)
(* or a bar with a field Bad naming the text field that does not parse as  *)
(* a number ("short" for a candle of fewer than 6 fields).                 *)

Candle(bar, bad) ==
    [k \in DOMAIN bar \cup {"Bad"} |-> IF k = "Bad" THEN bad ELSE bar[k]]

Malformed(candle) == "Bad" \in DOMAIN candle

\* extractPrice parses open, close, high and low, whatever price is asked for
extractPrice(candle, priceType) ==
    IF Malformed(candle)
    THEN [val |-> F(0),
          err |-> IF candle.Bad = "short"
                  THEN "invalid candle data: insufficient fields"
                  ELSE "invalid price"]
    ELSE [val |-> ExtractPrice(candle, priceType), err |-> NoError]

RECURSIVE SumSquares(_, _, _, _, _)
\* sum over bars j .. i of (price - sma)^2
SumSquares(ds, j, i, priceType, sma) ==
    IF j > i THEN F(0)
    ELSE LET diff == FSub(ExtractPrice(At(ds, i), priceType), sma)
         IN  FAdd(SumSquares(ds, j, i - 1, priceType, sma), FMul(diff, diff))

Band(ts, sma, multiplier, stdDev, lowerSign) ==
    LET upperBand == RAdd(RF(sma), RScale(multiplier, stdDev))
        lowerBand == RAdd(RF(sma), RScale(FMul(F(lowerSign), multiplier), stdDev))
    IN  [Timestamp |-> ts,
         UpperBand |-> upperBand,
         MiddleBand |-> sma,
         LowerBand |-> lowerBand,
         BandWidth |-> IF sma.n # 0
                       THEN RScale(FDiv(F(1), sma), RSub(upperBand, lowerBand))
                       ELSE RF(F(0))]

BBPointLowerAdds(ds, i, period, multiplier, priceType) ==
    LET sma == FDiv(SumPrices(ds, i - period + 1, i, priceType), F(period))
        varianceSum == SumSquares(ds, i - period + 1, i, priceType, sma)
    IN  Band(At(ds, i).Timestamp, sma, multiplier,
             Sqrt(FDiv(varianceSum, F(period))), 1)

BBPoint(ds, i, period, multiplier, priceType) ==
    LET sma == FDiv(SumPrices(ds, i - period + 1, i, priceType), F(period))
        varianceSum == SumSquares(ds, i - period + 1, i, priceType, sma)
    IN  Band(At(ds, i).Timestamp, sma, multiplier,
             Sqrt(FDiv(varianceSum, F(period))), -1)

CalculateBollingerBands(ds, period, multiplier, priceType) ==
    IF Len(ds) = 0 THEN [res |-> <<>>, err |-> "dataset is empty"]
    ELSE IF period <= 0 THEN [res |-> <<>>, err |-> "period must be greater than 0"]
    ELSE IF period > Len(ds)
    THEN [res |-> <<>>, err |-> "period cannot be greater than dataset length"]
    ELSE IF FLe(multiplier, F(0))
    THEN [res |-> <<>>, err |-> "multiplier must be greater than 0"]
    ELSE IF \E k \in 1 .. Len(ds) : Malformed(ds[k])
    THEN [res |-> <<>>, err |-> "error at index"]
    ELSE [res |-> [k \in 1 .. (Len(ds) - period + 1) |->
                      BBPoint(ds, k + period - 2, period, multiplier, priceType)],
          err |-> NoError]

\* the zero value BollingerBands{}
NoBands ==
    [Timestamp |-> 0, UpperBand |-> RF(F(0)), MiddleBand |-> F(0),
     LowerBand |-> RF(F(0)), BandWidth |-> RF(F(0))]

LatestBandsOf(bands) ==
    IF bands.err # NoError THEN [val |-> NoBands, err |-> bands.err]
    ELSE IF Len(bands.res) = 0
    THEN [val |-> NoBands, err |-> "no Bollinger Bands calculated"]
    ELSE [val |-> Last(bands.res), err |-> NoError]

GetLatestBollingerBands(ds, period, multiplier, priceType) ==
    LatestBandsOf(CalculateBollingerBands(ds, period, multiplier, priceType))

AboveUpperBand == "above_upper"
BetweenBands == "between_bands"
BelowLowerBand == "below_lower"
TouchingUpper == "touching_upper"
TouchingLower == "touching_lower"

PositionOf(currentPrice, bands, tolerance) ==
    LET upperTolerance == RScale(FSub(F(1), tolerance), bands.UpperBand)
        lowerTolerance == RScale(FAdd(F(1), tolerance), bands.LowerBand)
    IN  IF RGt(RF(currentPrice), bands.UpperBand) THEN AboveUpperBand
        ELSE IF RLt(RF(currentPrice), bands.LowerBand) THEN BelowLowerBand
        ELSE IF RGe(RF(currentPrice), upperTolerance) THEN TouchingUpper
        ELSE IF RLe(RF(currentPrice), lowerTolerance) THEN TouchingLower
        ELSE BetweenBands

PricePositionOf(bands, currentPrice, tolerance) ==
    IF bands.err # NoError THEN [val |-> "", err |-> bands.err]
    ELSE IF currentPrice.err # NoError THEN [val |-> "", err |-> currentPrice.err]
    ELSE [val |-> PositionOf(currentPrice.val, bands.val, tolerance), err |-> NoError]

\* the position of the price the bands were built from
GetPricePositionOfSelectedPrice(ds, period, multiplier, priceType, tolerance) ==
    IF Len(ds) = 0 THEN [val |-> "", err |-> "dataset is empty"]
    ELSE PricePositionOf(GetLatestBollingerBands(ds, period, multiplier, priceType),
                         extractPrice(Last(ds), priceType), tolerance)

GetPricePosition(ds, period, multiplier, priceType, tolerance) ==
    IF Len(ds) = 0 THEN [val |-> "", err |-> "dataset is empty"]
    ELSE PricePositionOf(GetLatestBollingerBands(ds, period, multiplier, priceType),
                         extractPrice(Last(ds), ClosePrice), tolerance)

RECURSIVE TotalWidth(_, _)
TotalWidth(bands, count) ==
    IF count = 0 THEN RF(F(0))
    ELSE RAdd(TotalWidth(bands, count - 1), bands[count].BandWidth)

SqueezeOf(bands, lookback) ==
    IF bands.err # NoError THEN [val |-> FALSE, err |-> bands.err]
    ELSE IF Len(bands.res) < lookback
    THEN [val |-> FALSE, err |-> "insufficient data for squeeze analysis"]
    ELSE [val |-> RLt(Last(bands.res).BandWidth,
                      RScale(Frac(7, 10),
                             RScale(FDiv(F(1), F(lookback)),
                                    TotalWidth(LastN(bands.res, lookback), lookback)))),
          err |-> NoError]

BollingerSqueeze(ds, period, multiplier, priceType, lookback) ==
    SqueezeOf(CalculateBollingerBands(ds, period, multiplier, priceType), lookback)

BreakoutOf(prevPos, currentPos) ==
    IF prevPos = BetweenBands /\ currentPos = AboveUpperBand THEN "bullish_breakout"
    ELSE IF prevPos = BetweenBands /\ currentPos = BelowLowerBand THEN "bearish_breakout"
    ELSE IF prevPos = TouchingUpper /\ currentPos = AboveUpperBand THEN "bullish_breakout"
    ELSE IF prevPos = TouchingLower /\ currentPos = BelowLowerBand THEN "bearish_breakout"
    ELSE "no_breakout"

BreakoutBetween(currentPos, prevDataset, prevPos, period) ==
    IF currentPos.err # NoError THEN [val |-> "", err |-> currentPos.err]
    ELSE IF Len(prevDataset) < period
    THEN [val |-> "insufficient_data", err |-> NoError]
    ELSE IF prevPos.err # NoError THEN [val |-> "", err |-> prevPos.err]
    ELSE [val |-> BreakoutOf(prevPos.val, currentPos.val), err |-> NoError]

BollingerBreakout(ds, period, multiplier, priceType) ==
    IF Len(ds) < 2 THEN [val |-> "insufficient_data", err |-> NoError]
    ELSE BreakoutBetween(GetPricePosition(ds, period, multiplier, priceType, Frac(2, 100)),
                         SubSeq(ds, 1, Len(ds) - 1),
                         GetPricePosition(SubSeq(ds, 1, Len(ds) - 1), period, multiplier,
                                          priceType, Frac(2, 100)),
                         period)

BollingerSignalOf(position, breakout, squeeze) ==
    IF breakout = "bullish_breakout" /\ ~squeeze THEN "strong_buy"
    ELSE IF breakout = "bearish_breakout" /\ ~squeeze THEN "strong_sell"
    ELSE IF position = BelowLowerBand /\ squeeze THEN "buy"
    ELSE IF position = AboveUpperBand /\ squeeze THEN "sell"
    ELSE IF squeeze /\ position = BetweenBands THEN "wait_for_breakout"
    ELSE IF position = TouchingLower THEN "buy_signal"
    ELSE IF position = TouchingUpper THEN "sell_signal"
    ELSE "hold"

\* the zero value BollingerStrategy{}
NoBollingerStrategy ==
    [Position |-> "", Breakout |-> "", Squeeze |-> FALSE, BandWidth |-> RF(F(0)),
     Signal |-> ""]

BollingerStrategyOf(position, breakout, squeeze, bands) ==
    IF position.err # NoError THEN [val |-> NoBollingerStrategy, err |-> position.err]
    ELSE IF breakout.err # NoError THEN [val |-> NoBollingerStrategy, err |-> breakout.err]
    ELSE IF squeeze.err # NoError THEN [val |-> NoBollingerStrategy, err |-> squeeze.err]
    ELSE IF bands.err # NoError THEN [val |-> NoBollingerStrategy, err |-> bands.err]
    ELSE [val |-> [Position |-> position.val,
                   Breakout |-> breakout.val,
                   Squeeze |-> squeeze.val,
                   BandWidth |-> bands.val.BandWidth,
                   Signal |-> BollingerSignalOf(position.val, breakout.val, squeeze.val)],
          err |-> NoError]

AnalyzeBollingerStrategy(ds, period, multiplier, priceType) ==
    BollingerStrategyOf(GetPricePosition(ds, period, multiplier, priceType, Frac(2, 100)),
                        BollingerBreakout(ds, period, multiplier, priceType),
                        BollingerSqueeze(ds, period, multiplier, priceType, 10),
                        GetLatestBollingerBands(ds, period, multiplier, priceType))

-----------------------------------------------------------------------------
(* Volume Engine                                                           *)

Max(a, b) == IF b > a THEN b ELSE a

RECURSIVE SumVolumes(_, _, _)
SumVolumes(ds, j, i) ==
    IF j > i THEN F(0) ELSE FAdd(SumVolumes(ds, j, i - 1), F(At(ds, i).Volume))

\* an OBV that counts an unchanged close as a rise
OBVStepAddsOnEqual(obv, ds, i) ==
    IF At(ds, i).Close >= At(ds, i - 1).Close THEN FAdd(obv, F(At(ds, i).Volume))
    ELSE FSub(obv, F(At(ds, i).Volume))

OBVStep(obv, ds, i) ==
    IF At(ds, i).Close > At(ds, i - 1).Close THEN FAdd(obv, F(At(ds, i).Volume))
    ELSE IF At(ds, i).Close < At(ds, i - 1).Close THEN FSub(obv, F(At(ds, i).Volume))
    ELSE obv

VPTStep(vpt, ds, i) ==
    IF At(ds, i - 1).Close # 0
    THEN LET priceChange == FDiv(F(At(ds, i).Close - At(ds, i - 1).Close),
                                 F(At(ds, i - 1).Close))
         IN  FAdd(vpt, FMul(F(At(ds, i).Volume), priceChange))
    ELSE vpt

VROCAt(ds, i, vrocPeriod) ==
    IF i >= vrocPeriod /\ At(ds, i - vrocPeriod).Volume # 0
    THEN FMul(FDiv(F(At(ds, i).Volume - At(ds, i - vrocPeriod).Volume),
                   F(At(ds, i - vrocPeriod).Volume)),
              F(100))
    ELSE F(0)

MoneyFlowMultiplier(bar) ==
    FDiv(F((bar.Close - bar.Low) - (bar.High - bar.Close)), F(bar.High - bar.Low))

ADLStepNoMoneyFlow(adl, ds, i) == adl

ADLStep(adl, ds, i) ==
    IF At(ds, i).High # At(ds, i).Low
    THEN FAdd(adl, FMul(MoneyFlowMultiplier(At(ds, i)), F(At(ds, i).Volume)))
    ELSE adl

RECURSIVE VolumeLoop(_, _, _, _, _, _, _, _)
\* the loop "for i := maxPeriod; i < len(dataset); i++" with its running totals
VolumeLoop(ds, vmaPeriod, vrocPeriod, i, obv, vpt, adl, results) ==
    IF i >= Len(ds) THEN results
    ELSE LET obv2 == OBVStep(obv, ds, i)
             vpt2 == VPTStep(vpt, ds, i)
             adl2 == ADLStep(adl, ds, i)
         IN  VolumeLoop(ds, vmaPeriod, vrocPeriod, i + 1, obv2, vpt2, adl2,
                 Append(results,
                     [Timestamp |-> Format(At(ds, i).Timestamp),
                      Volume |-> F(At(ds, i).Volume),
                      VMA |-> FDiv(SumVolumes(ds, i - vmaPeriod + 1, i), F(vmaPeriod)),
                      OBV |-> obv2,
                      VPT |-> vpt2,
                      VROC |-> VROCAt(ds, i, vrocPeriod),
                      ADL |-> adl2]))

CalculateVolumeAnalysis(ds, vmaPeriod, vrocPeriod) ==
    IF Len(ds) = 0 THEN [res |-> <<>>, err |-> "dataset is empty"]
    ELSE IF vmaPeriod <= 0 \/ vrocPeriod <= 0
    THEN [res |-> <<>>, err |-> "periods must be greater than 0"]
    ELSE IF Len(ds) <= Max(vmaPeriod, vrocPeriod)
    THEN [res |-> <<>>, err |-> "insufficient data"]
    ELSE [res |-> VolumeLoop(ds, vmaPeriod, vrocPeriod, Max(vmaPeriod, vrocPeriod),
                             F(At(ds, 0).Volume), F(At(ds, 0).Volume),
                             F(At(ds, 0).Volume), <<>>),
          err |-> NoError]

\* the zero value VolumeResult{}
NoVolumeResult ==
    [Timestamp |-> 0, Volume |-> F(0), VMA |-> F(0), OBV |-> F(0), VPT |-> F(0),
     VROC |-> F(0), ADL |-> F(0)]

LatestVolumeOf(results) ==
    IF results.err # NoError THEN [val |-> NoVolumeResult, err |-> results.err]
    ELSE IF Len(results.res) = 0
    THEN [val |-> NoVolumeResult, err |-> "no volume results calculated"]
    ELSE [val |-> Last(results.res), err |-> NoError]

GetLatestVolumeAnalysis(ds, vmaPeriod, vrocPeriod) ==
    LatestVolumeOf(CalculateVolumeAnalysis(ds, vmaPeriod, vrocPeriod))

VolumeSignal(type, strength, trend, confidence) ==
    [Type |-> type, Strength |-> strength, Trend |-> trend, Confidence |-> confidence]

BreakoutStrengthFirstTierAt2x(volumeRatio, multiplier) ==
    IF FGe(volumeRatio, FMul(multiplier, F(2))) THEN <<"extreme", Frac(9, 10)>>
    ELSE IF FGe(volumeRatio, multiplier) THEN <<"moderate", Frac(6, 10)>>
    ELSE <<"weak", Frac(3, 10)>>

BreakoutStrength(volumeRatio, multiplier) ==
    IF FGe(volumeRatio, FMul(multiplier, F(3))) THEN <<"extreme", Frac(9, 10)>>
    ELSE IF FGe(volumeRatio, FMul(multiplier, F(2))) THEN <<"strong", Frac(8, 10)>>
    ELSE IF FGe(volumeRatio, multiplier) THEN <<"moderate", Frac(6, 10)>>
    ELSE <<"weak", Frac(3, 10)>>

BreakoutTrend(ds, latest) ==
    IF Len(ds) >= 2
    THEN IF Last(ds).Close > ds[Len(ds) - 1].Close /\ FGt(latest.OBV, F(0)) THEN "bullish"
         ELSE IF Last(ds).Close < ds[Len(ds) - 1].Close THEN "bearish"
         ELSE "neutral"
    ELSE ""

\* strength is the pair <<Strength, Confidence>> of the strength switch
BreakoutSignalOf(ds, latest, volumeRatio, multiplier, strength) ==
    IF FGe(volumeRatio, multiplier)
    THEN VolumeSignal("breakout", strength[1], BreakoutTrend(ds, latest), strength[2])
    ELSE VolumeSignal("normal", strength[1], "neutral", strength[2])

VolumeBreakoutOf(ds, latest, multiplier) ==
    IF latest.err # NoError
    THEN [val |-> VolumeSignal("", "", "", F(0)), err |-> latest.err]
    ELSE [val |-> BreakoutSignalOf(ds, latest.val,
                                   FDiv(latest.val.Volume, latest.val.VMA), multiplier,
                                   BreakoutStrength(FDiv(latest.val.Volume, latest.val.VMA),
                                                    multiplier)),
          err |-> NoError]

\* a breakout detector that also fixes the VMA period at 5
DetectVolumeBreakoutFixedVMA(ds, vmaPeriod, multiplier) ==
    VolumeBreakoutOf(ds, GetLatestVolumeAnalysis(ds, 5, 5), multiplier)

DetectVolumeBreakout(ds, vmaPeriod, multiplier) ==
    VolumeBreakoutOf(ds, GetLatestVolumeAnalysis(ds, vmaPeriod, 5), multiplier)

RECURSIVE ADLSums(_, _)
\* <<adlSum, timeSum, adlTimeSum, timeSquareSum>> over recent[0 .. count-1]
ADLSums(recent, count) ==
    IF count = 0 THEN <<F(0), F(0), F(0), F(0)>>
    ELSE LET before == ADLSums(recent, count - 1)
             time == F(count - 1)
             adl == At(recent, count - 1).ADL
         IN  <<FAdd(before[1], adl), FAdd(before[2], time),
               FAdd(before[3], FMul(adl, time)), FAdd(before[4], FMul(time, time))>>

SlopeOf(sums, n) ==
    FDiv(FSub(FMul(n, sums[3]), FMul(sums[2], sums[1])),
         FSub(FMul(n, sums[4]), FMul(sums[2], sums[2])))

ADLSlope(recent) == SlopeOf(ADLSums(recent, Len(recent)), F(Len(recent)))

AccumulationOf(slope) ==
    IF FGt(slope, F(1000)) THEN VolumeSignal("accumulation", "strong", "bullish", Frac(8, 10))
    ELSE IF FGt(slope, F(100))
    THEN VolumeSignal("accumulation", "moderate", "bullish", Frac(6, 10))
    ELSE IF FLt(slope, F(-1000))
    THEN VolumeSignal("distribution", "strong", "bearish", Frac(8, 10))
    ELSE IF FLt(slope, F(-100))
    THEN VolumeSignal("distribution", "moderate", "bearish", Frac(6, 10))
    ELSE VolumeSignal("neutral", "weak", "neutral", Frac(3, 10))

AccumulationDistributionOf(results, lookback) ==
    IF results.err # NoError
    THEN [val |-> VolumeSignal("", "", "", F(0)), err |-> results.err]
    ELSE IF Len(results.res) < lookback
    THEN [val |-> VolumeSignal("insufficient_data", "", "", F(0)), err |-> NoError]
    ELSE [val |-> AccumulationOf(ADLSlope(LastN(results.res, lookback))),
          err |-> NoError]

DetectAccumulationDistribution(ds, lookback) ==
    AccumulationDistributionOf(CalculateVolumeAnalysis(ds, 10, 5),
                               IF lookback < 5 THEN 5 ELSE lookback)

OBVTrendOf(results) ==
    IF Len(results) >= 3
    THEN IF /\ FGt(results[Len(results)].OBV, results[Len(results) - 1].OBV)
            /\ FGt(results[Len(results) - 1].OBV, results[Len(results) - 2].OBV)
         THEN "rising"
         ELSE IF /\ FLt(results[Len(results)].OBV, results[Len(results) - 1].OBV)
                 /\ FLt(results[Len(results) - 1].OBV, results[Len(results) - 2].OBV)
         THEN "falling"
         ELSE "sideways"
    ELSE "sideways"

VolumeSignalOf(breakoutSignal, accumSignal, obvTrend, volumeRatio) ==
    IF /\ breakoutSignal.Type = "breakout"
       /\ breakoutSignal.Trend = "bullish"
       /\ accumSignal.Type = "accumulation"
    THEN "strong_buy"
    ELSE IF /\ breakoutSignal.Type = "breakout"
            /\ breakoutSignal.Trend = "bearish"
            /\ accumSignal.Type = "distribution"
    THEN "strong_sell"
    ELSE IF breakoutSignal.Type = "breakout" /\ breakoutSignal.Trend = "bullish" THEN "buy"
    ELSE IF breakoutSignal.Type = "breakout" /\ breakoutSignal.Trend = "bearish" THEN "sell"
    ELSE IF accumSignal.Type = "accumulation" /\ obvTrend = "rising" THEN "accumulate"
    ELSE IF accumSignal.Type = "distribution" /\ obvTrend = "falling" THEN "distribute"
    ELSE IF FLt(volumeRatio, Frac(1, 2)) THEN "low_volume_alert"
    ELSE "hold"

\* the zero value VolumeStrategy{}
NoVolumeStrategy ==
    [Current |-> NoVolumeResult, BreakoutSignal |-> VolumeSignal("", "", "", F(0)),
     AccumulationSignal |-> VolumeSignal("", "", "", F(0)), VolumeRatio |-> F(0),
     OBVTrend |-> "", Signal |-> ""]

VolumeStrategyAt(current, breakoutSignal, accumSignal, volumeRatio, obvTrend) ==
    [Current |-> current,
     BreakoutSignal |-> breakoutSignal,
     AccumulationSignal |-> accumSignal,
     VolumeRatio |-> volumeRatio,
     OBVTrend |-> obvTrend,
     Signal |-> VolumeSignalOf(breakoutSignal, accumSignal, obvTrend, volumeRatio)]

VolumeStrategyOf(current, breakoutSignal, accumSignal, results) ==
    IF current.err # NoError THEN [val |-> NoVolumeStrategy, err |-> current.err]
    ELSE IF breakoutSignal.err # NoError
    THEN [val |-> NoVolumeStrategy, err |-> breakoutSignal.err]
    ELSE IF accumSignal.err # NoError
    THEN [val |-> NoVolumeStrategy, err |-> accumSignal.err]
    ELSE [val |-> VolumeStrategyAt(current.val, breakoutSignal.val, accumSignal.val,
                                   FDiv(current.val.Volume, current.val.VMA),
                                   OBVTrendOf(results.res)),
          err |-> NoError]

AnalyzeVolumeStrategy(ds, vmaPeriod, vrocPeriod) ==
    VolumeStrategyOf(GetLatestVolumeAnalysis(ds, vmaPeriod, vrocPeriod),
                     DetectVolumeBreakout(ds, vmaPeriod, F(2)),
                     DetectAccumulationDistribution(ds, 10),
                     CalculateVolumeAnalysis(ds, vmaPeriod, vrocPeriod))

-----------------------------------------------------------------------------
(* Signal Fusion Layer: technical fusion                                   *)

\* Go's integer division truncates toward zero
GoDiv(a, b) == Sign(a) * Sign(b) * (Abs(a) \div Abs(b))

\* an SMA signal that stays neutral when price and crossover disagree
SMASignalOfNeutral(isAboveSMA, smaCross) ==
    IF isAboveSMA /\ smaCross = "bullish_crossover" THEN "strong_bullish"
    ELSE IF ~isAboveSMA /\ smaCross = "bearish_crossover" THEN "strong_bearish"
    ELSE IF isAboveSMA /\ smaCross # "bearish_crossover" THEN "bullish"
    ELSE IF ~isAboveSMA /\ smaCross # "bullish_crossover" THEN "bearish"
    ELSE "neutral"

SMASignalOf(isAboveSMA, smaCross) ==
    IF isAboveSMA /\ smaCross = "bullish_crossover" THEN "strong_bullish"
    ELSE IF ~isAboveSMA /\ smaCross = "bearish_crossover" THEN "strong_bearish"
    ELSE IF isAboveSMA THEN "bullish"
    ELSE "bearish"

IsBullish(signal) == signal \in {"strong_buy", "buy", "bullish", "strong_bullish"}

IsBearish(signal) == signal \in {"strong_sell", "sell", "bearish", "strong_bearish"}

\* bullishCount and bearishCount of the loop over the three signals
BullishCount(signals) == Cardinality({k \in 1 .. Len(signals) : IsBullish(signals[k])})

BearishCount(signals) == Cardinality({k \in 1 .. Len(signals) : IsBearish(signals[k])})

Verdict(finalSignal, confidence, riskLevel) ==
    [FinalSignal |-> finalSignal, Confidence |-> confidence, RiskLevel |-> riskLevel]

VoteDecisionStrongAtTwo(bullishCount, bearishCount, bbSignal) ==
    IF bullishCount >= 2 THEN Verdict("STRONG BUY", "HIGH", "LOW")
    ELSE IF bearishCount >= 2 THEN Verdict("STRONG SELL", "HIGH", "HIGH")
    ELSE IF bbSignal = "wait_for_breakout" THEN Verdict("WAIT", "HIGH", "LOW")
    ELSE Verdict("HOLD", "LOW", "MEDIUM")

\* the switch on the vote counts
VoteDecision(bullishCount, bearishCount, bbSignal) ==
    IF bullishCount >= 3 THEN Verdict("STRONG BUY", "HIGH", "LOW")
    ELSE IF bullishCount >= 2 THEN Verdict("BUY", "MEDIUM", "LOW")
    ELSE IF bearishCount >= 3 THEN Verdict("STRONG SELL", "HIGH", "HIGH")
    ELSE IF bearishCount >= 2 THEN Verdict("SELL", "MEDIUM", "MEDIUM")
    ELSE IF bbSignal = "wait_for_breakout" THEN Verdict("WAIT", "HIGH", "LOW")
    ELSE Verdict("HOLD", "LOW", "MEDIUM")

ExtremeAdjustUnlessMajority(decision, rsiCondition, bbPosition) ==
    IF decision.FinalSignal \notin {"HOLD", "WAIT"} THEN decision
    ELSE IF rsiCondition = RSIExtremeHigh /\ bbPosition = AboveUpperBand
    THEN Verdict("STRONG SELL", "HIGH", "HIGH")
    ELSE IF rsiCondition = RSIExtremeLow /\ bbPosition = BelowLowerBand
    THEN Verdict("STRONG BUY", "HIGH", "LOW")
    ELSE decision

\* "Adjust for extreme conditions"
ExtremeAdjust(decision, rsiCondition, bbPosition) ==
    IF rsiCondition = RSIExtremeHigh /\ bbPosition = AboveUpperBand
    THEN Verdict("STRONG SELL", "HIGH", "HIGH")
    ELSE IF rsiCondition = RSIExtremeLow /\ bbPosition = BelowLowerBand
    THEN Verdict("STRONG BUY", "HIGH", "LOW")
    ELSE decision

\* the zero value CombinedTechnicalAnalysis{}
NoTechnical ==
    [SMASignal |-> "", BollingerSignal |-> "", RSISignal |-> "", FinalSignal |-> "",
     Confidence |-> "", RiskLevel |-> ""]

\* Every error of the four engines is dropped ("_"); the value an engine
\* returns beside its error is its zero value.
TechnicalOf(smaSignal, bbStrategy, rsiStrategy, decision) ==
    [SMASignal |-> smaSignal,
     BollingerSignal |-> bbStrategy.Signal,
     RSISignal |-> rsiStrategy.Signal,
     FinalSignal |-> decision.FinalSignal,
     Confidence |-> decision.Confidence,
     RiskLevel |-> decision.RiskLevel]

CombineSignals(smaSignal, bbStrategy, rsiStrategy) ==
    TechnicalOf(smaSignal, bbStrategy, rsiStrategy,
                ExtremeAdjust(
                    VoteDecision(
                        BullishCount(<<smaSignal, bbStrategy.Signal, rsiStrategy.Signal>>),
                        BearishCount(<<smaSignal, bbStrategy.Signal, rsiStrategy.Signal>>),
                        bbStrategy.Signal),
                    rsiStrategy.Condition, bbStrategy.Position))

ComprehensiveAnalysis(ds, smaPeriod, bbPeriod, rsiPeriod, bbMultiplier, priceType) ==
    [val |-> CombineSignals(
                 SMASignalOf(IsPriceAboveSMA(ds, smaPeriod, priceType).val,
                             SMACrossover(ds, GoDiv(smaPeriod, 2), smaPeriod,
                                          priceType).val),
                 AnalyzeBollingerStrategy(ds, bbPeriod, bbMultiplier, priceType).val,
                 AnalyzeRSIStrategy(ds, rsiPeriod, priceType).val),
     err |-> NoError]

-----------------------------------------------------------------------------
(* Signal Fusion Layer: ultimate fusion                                    *)

VolumeConfirmIgnoresVolume(technical, volume) ==
    technical.FinalSignal \in {"STRONG BUY", "BUY", "STRONG SELL", "SELL", "WAIT"}

VolumeConfirmOf(technical, volume) ==
    IF /\ technical.FinalSignal \in {"STRONG BUY", "BUY"}
       /\ volume.Signal \in {"strong_buy", "buy", "accumulate"}
    THEN TRUE
    ELSE IF /\ technical.FinalSignal \in {"STRONG SELL", "SELL"}
            /\ volume.Signal \in {"strong_sell", "sell", "distribute"}
    THEN TRUE
    ELSE IF technical.FinalSignal = "WAIT" /\ FLt(volume.VolumeRatio, F(1)) THEN TRUE
    ELSE FALSE

\* the grading with the first rule reading the fused verdict instead of the
\* oscillator's signal
RugPullRiskByFinalSignal(technical, volume) ==
    IF /\ volume.Signal = "strong_sell"
       /\ volume.AccumulationSignal.Type = "distribution"
       /\ technical.FinalSignal = "STRONG SELL"
       /\ FGt(volume.VolumeRatio, F(3))
    THEN "extreme"
    ELSE IF /\ volume.AccumulationSignal.Type = "distribution"
            /\ technical.FinalSignal = "STRONG SELL"
    THEN "high"
    ELSE IF \/ volume.Signal = "distribute"
            \/ (FGt(volume.VolumeRatio, F(2)) /\ technical.FinalSignal = "SELL")
    THEN "medium"
    ELSE "low"

RugPullRiskOf(technical, volume) ==
    IF /\ volume.Signal = "strong_sell"
       /\ volume.AccumulationSignal.Type = "distribution"
       /\ technical.RSISignal = "strong_sell"
       /\ FGt(volume.VolumeRatio, F(3))
    THEN "extreme"
    ELSE IF /\ volume.AccumulationSignal.Type = "distribution"
            /\ technical.FinalSignal = "STRONG SELL"
    THEN "high"
    ELSE IF \/ volume.Signal = "distribute"
            \/ (FGt(volume.VolumeRatio, F(2)) /\ technical.FinalSignal = "SELL")
    THEN "medium"
    ELSE "low"

ConfidenceAdjustKeepsSignal(technical, volumeConfirm) ==
    IF volumeConfirm
    THEN Verdict(technical.FinalSignal,
                 IF technical.Confidence = "LOW" THEN "MEDIUM" ELSE "HIGH",
                 technical.RiskLevel)
    ELSE Verdict(technical.FinalSignal,
                 IF technical.Confidence = "HIGH" THEN "MEDIUM" ELSE "LOW",
                 technical.RiskLevel)

\* an adjustment that raises on confirmation and never lowers
ConfidenceAdjustNeverLowers(technical, volumeConfirm) ==
    IF volumeConfirm
    THEN Verdict(technical.FinalSignal,
                 IF technical.Confidence = "LOW" THEN "MEDIUM" ELSE "HIGH",
                 technical.RiskLevel)
    ELSE Verdict(technical.FinalSignal, technical.Confidence, technical.RiskLevel)

ConfidenceAdjust(technical, volumeConfirm) ==
    IF volumeConfirm
    THEN IF technical.Confidence = "MEDIUM"
         THEN Verdict(technical.FinalSignal, "HIGH", technical.RiskLevel)
         ELSE IF technical.Confidence = "LOW"
         THEN Verdict(technical.FinalSignal, "MEDIUM", technical.RiskLevel)
         ELSE Verdict(technical.FinalSignal, technical.Confidence, technical.RiskLevel)
    ELSE IF technical.Confidence = "HIGH"
         THEN Verdict(IF technical.FinalSignal = "STRONG BUY" THEN "BUY"
                      ELSE IF technical.FinalSignal = "STRONG SELL" THEN "SELL"
                      ELSE technical.FinalSignal,
                      "MEDIUM", technical.RiskLevel)
         ELSE IF technical.Confidence = "MEDIUM"
         THEN Verdict("HOLD", "LOW", technical.RiskLevel)
         ELSE Verdict(technical.FinalSignal, technical.Confidence, technical.RiskLevel)

LowVolumeOverrideOnHold(decision, volume) ==
    IF volume.Signal = "low_volume_alert" /\ decision.FinalSignal = "HOLD"
    THEN Verdict("SUSPICIOUS", "LOW", "HIGH")
    ELSE decision

LowVolumeOverride(decision, volume) ==
    IF volume.Signal = "low_volume_alert" THEN Verdict("SUSPICIOUS", "LOW", "HIGH")
    ELSE decision

\* the zero value UltimateMemecoinAnalysis{}
NoUltimate ==
    [Technical |-> NoTechnical, Volume |-> NoVolumeStrategy, FinalSignal |-> "",
     Confidence |-> "", RiskLevel |-> "", RugPullRisk |-> "", VolumeConfirm |-> FALSE]

UltimateAt(technical, volume, volumeConfirm, decision) ==
    [Technical |-> technical,
     Volume |-> volume,
     FinalSignal |-> decision.FinalSignal,
     Confidence |-> decision.Confidence,
     RiskLevel |-> decision.RiskLevel,
     RugPullRisk |-> RugPullRiskOf(technical, volume),
     VolumeConfirm |-> volumeConfirm]

UltimateOf(technical, volume) ==
    IF technical.err # NoError THEN [val |-> NoUltimate, err |-> technical.err]
    ELSE IF volume.err # NoError THEN [val |-> NoUltimate, err |-> volume.err]
    ELSE [val |-> UltimateAt(technical.val, volume.val,
                             VolumeConfirmOf(technical.val, volume.val),
                             LowVolumeOverride(
                                 ConfidenceAdjust(technical.val,
                                                  VolumeConfirmOf(technical.val,
                                                                  volume.val)),
                                 volume.val)),
          err |-> NoError]

UltimateAnalysis(ds, smaPeriod, bbPeriod, rsiPeriod, vmaPeriod, bbMultiplier) ==
    UltimateOf(ComprehensiveAnalysis(ds, smaPeriod, bbPeriod, rsiPeriod, bbMultiplier,
                                     ClosePrice),
               AnalyzeVolumeStrategy(ds, vmaPeriod, 5))

-----------------------------------------------------------------------------
(* The series the checks run over                                          *)

MaxLen == 5
MaxPeriod == 6

\* Bar i of every series is stamped 3*i + 1 half-seconds: non-decreasing, and
\* no two bars print the same second.
TimeOf(i) == 3 * i + 1

Stamp(shapes) ==
    [k \in 1 .. Len(shapes) |->
        [shapes[k] EXCEPT !.Timestamp = TimeOf(k - 1)]]

SeqsUpTo(S, lo, hi) == UNION {[1 .. n -> S] : n \in lo .. hi}

PriceTypes == {ClosePrice, OpenPrice, HighPrice, LowPrice, TypicalPrice, WeightedPrice, 6}

SMAShapes == {Bar(0, 1, 3, 1, 2, 1), Bar(0, 2, 2, 2, 2, 1), Bar(0, 4, 5, 2, 3, 1)}

Idle == [op |-> "none"]

InitSMA ==
    /\ dataset \in {Stamp(s) : s \in SeqsUpTo(SMAShapes, 0, MaxLen)}
    /\ call = Idle
    /\ result = Idle

CallCalculateSMA ==
    /\ call = Idle
    /\ \E period \in 0 .. MaxPeriod, priceType \in PriceTypes :
          /\ call' = [op |-> "CalculateSMA", period |-> period, priceType |-> priceType]
          /\ result' = CalculateSMA(dataset, period, priceType)
    /\ UNCHANGED dataset

NextSMA == CallCalculateSMA

SpecSMA == InitSMA /\ [][NextSMA]_vars

-----------------------------------------------------------------------------
(* C1 *)

RECURSIVE WindowTotal(_, _, _, _)
\* the selected prices of `count` bars starting at bar `first`, added up
WindowTotal(ds, first, count, priceType) ==
    IF count = 0 THEN F(0)
    ELSE FAdd(ExtractPrice(At(ds, first), priceType),
              WindowTotal(ds, first + 1, count - 1, priceType))

SMAValidCall ==
    /\ call.op = "CalculateSMA"
    /\ Len(dataset) > 0
    /\ 1 <= call.period
    /\ call.period <= Len(dataset)

\* C1: for a non-empty series and 1 <= period <= len(series), CalculateSMA
\* returns no error and exactly len(series) - period + 1 points; the point at
\* output position k is the arithmetic mean of the selected price over bars
\* k .. k+period-1 and carries the (formatted) timestamp of bar k+period-1.
C1_SMAWindowMean ==
    SMAValidCall =>
        /\ result.err = NoError
        /\ Len(result.res) = Len(dataset) - call.period + 1
        /\ \A k \in 0 .. (Len(dataset) - call.period) :
              /\ FEq(FMul(At(result.res, k).Value, F(call.period)),
                     WindowTotal(dataset, k, call.period, call.priceType))
              /\ At(result.res, k).Timestamp
                    = Format(At(dataset, k + call.period - 1).Timestamp)

C1_Witness ==
    /\ SMAValidCall
    /\ call.period = 3
    /\ Len(dataset) = 5
    /\ call.priceType = TypicalPrice
    /\ \E k \in 0 .. 1 : At(result.res, k).Value # At(result.res, k + 1).Value

-----------------------------------------------------------------------------
(* CalculateRSI over series whose closes range over 1 .. MaxPrice          *)

MaxPrice == 4
MaxRSILen == 5

RSIBar(c) == Bar(0, c, c + (c % 2), c - 1, c, 1)

\* the series of section 8 of the specification: closes 1, 2, 3, 4, 5, 6
Rising6 == [k \in 1 .. 6 |-> RSIBar(k)]

RSISeries ==
    {Stamp(s) : s \in SeqsUpTo({RSIBar(c) : c \in 1 .. MaxPrice}, 0, MaxRSILen)}
        \cup {Stamp(Rising6)}

InitRSI ==
    /\ dataset \in RSISeries
    /\ call = Idle
    /\ result = Idle

CallCalculateRSI ==
    /\ call = Idle
    /\ \E period \in 0 .. MaxPeriod, priceType \in {ClosePrice, HighPrice} :
          /\ call' = [op |-> "CalculateRSI", period |-> period, priceType |-> priceType]
          /\ result' = CalculateRSI(dataset, period, priceType)
    /\ UNCHANGED dataset

NextRSI == CallCalculateRSI

SpecRSI == InitRSI /\ [][NextRSI]_vars

RSICallOK == call.op = "CalculateRSI" /\ result.err = NoError

\* C2: every value CalculateRSI emits lies in the closed range 0 .. 100, at
\* every step of the smoothing recursion, the steps that use the RS sentinel
\* (average loss 0) included.
C2_RSIBounded ==
    RSICallOK =>
        \A k \in 1 .. Len(result.res) :
            FGe(result.res[k].Value, F(0)) /\ FLe(result.res[k].Value, F(100))

Sentinel == Frac(10000, 101)

\* a smoothed (not seeded) step with average loss 0, after steps with losses
C2_Witness ==
    /\ RSICallOK
    /\ call.period = 1
    /\ Len(result.res) >= 3
    /\ FLt(result.res[1].Value, F(50))
    /\ result.res[3].Value = Sentinel

StrictlyIncreasingCloses ==
    \A k \in 1 .. (Len(dataset) - 1) : dataset[k].Close < dataset[k + 1].Close

C8_Case == RSICallOK /\ call.priceType = ClosePrice /\ StrictlyIncreasingCloses

\* C8 as stated: on strictly increasing closes the first value CalculateRSI
\* emits is exactly 100.
C8_FirstValueIs100 == C8_Case => result.res[1].Value = F(100)

\* C8, amended: on strictly increasing closes the average loss over the first
\* window is 0, the RS = 100 sentinel is applied and the first value emitted
\* is 100 - 100/(1 + 100) = 10000/101.
C8_FirstValueIsSentinel ==
    C8_Case =>
        /\ FEq(SumFirst(Losses(Prices(dataset, ClosePrice)), call.period), F(0))
        /\ result.res[1].Value = FSub(F(100), FDiv(F(100), F(101)))
        /\ result.res[1].Value # F(100)

\* closes 1, 2, 3, 4, 5, 6 with period 3
C8_Witness ==
    /\ C8_Case
    /\ Len(dataset) = 6
    /\ call.period = 3
    /\ \A k \in 1 .. 6 : dataset[k].Close = k
    /\ Len(result.res) = 3

-----------------------------------------------------------------------------
(* CalculateBollingerBands over candles, malformed ones included           *)

MaxBBLen == 4

BBShapes ==
    {Bar(0, 1, 3, 1, 2, 1), Bar(0, 2, 2, 2, 2, 1), Bar(0, 4, 5, 2, 3, 1),
     Bar(0, 0, 0, 0, 0, 1), Candle(Bar(0, 1, 3, 1, 2, 1), "high")}

Multipliers == {Frac(-1, 1), F(0), Frac(1, 2), F(2)}

InitBB ==
    /\ dataset \in {Stamp(s) : s \in SeqsUpTo(BBShapes, 0, MaxBBLen)}
    /\ call = Idle
    /\ result = Idle

CallCalculateBollingerBands ==
    /\ call = Idle
    /\ \E period \in 0 .. MaxPeriod, multiplier \in Multipliers,
          priceType \in {ClosePrice, HighPrice, TypicalPrice} :
          /\ call' = [op |-> "CalculateBollingerBands", period |-> period,
                      multiplier |-> multiplier, priceType |-> priceType]
          /\ result' = CalculateBollingerBands(dataset, period, multiplier, priceType)
    /\ UNCHANGED dataset

NextBB == CallCalculateBollingerBands

SpecBB == InitBB /\ [][NextBB]_vars

BBCallOK == call.op = "CalculateBollingerBands" /\ result.err = NoError

\* the selected prices of the window that ends at bar i are all equal, which
\* is when their population standard deviation is 0
FlatWindow(i) ==
    \A j \in (i - call.period + 1) .. i :
        ExtractPrice(At(dataset, j), call.priceType)
            = ExtractPrice(At(dataset, i), call.priceType)

-----------------------------------------------------------------------------
(* CalculateVolumeAnalysis and DetectVolumeBreakout over short free series *)
(* and over longer series made of a repeated bar and a free tail           *)

MaxVolLen == 3
MaxVolTail == 2
VolPrefixLen == 6

\* bars of close 2 and volume 3 (high = low; close off the midpoint of high
\* and low; close at the midpoint), bars of volume 1 and 0, a volume spike
VolShapes ==
    {Bar(0, 2, 2, 2, 2, 3), Bar(0, 2, 4, 1, 2, 3), Bar(0, 2, 3, 1, 2, 3),
     Bar(0, 1, 2, 1, 1, 1), Bar(0, 1, 1, 1, 1, 0), Bar(0, 2, 3, 2, 3, 25)}

Repeat(bar, count) == [k \in 1 .. count |-> bar]

VolSeries ==
    {Stamp(s) : s \in SeqsUpTo(VolShapes, 0, MaxVolLen)}
        \cup {Stamp(Repeat(bar, VolPrefixLen) \o tail) :
                 bar \in VolShapes, tail \in SeqsUpTo(VolShapes, 1, MaxVolTail)}

InitVol ==
    /\ dataset \in VolSeries
    /\ call = Idle
    /\ result = Idle

CallCalculateVolumeAnalysis ==
    /\ call = Idle
    /\ \E vmaPeriod \in 0 .. 3, vrocPeriod \in {0, 1, 2, 5} :
          /\ call' = [op |-> "CalculateVolumeAnalysis", vmaPeriod |-> vmaPeriod,
                      vrocPeriod |-> vrocPeriod]
          /\ result' = CalculateVolumeAnalysis(dataset, vmaPeriod, vrocPeriod)
    /\ UNCHANGED dataset

CallDetectVolumeBreakout ==
    /\ call = Idle
    /\ \E vmaPeriod \in {0, 2, 5, 6, 7}, multiplier \in {F(1), Frac(5, 3), F(2), F(5)} :
          /\ call' = [op |-> "DetectVolumeBreakout", vmaPeriod |-> vmaPeriod,
                      multiplier |-> multiplier]
          /\ result' = DetectVolumeBreakout(dataset, vmaPeriod, multiplier)
    /\ UNCHANGED dataset

NextVol == CallCalculateVolumeAnalysis \/ CallDetectVolumeBreakout

SpecVol == InitVol /\ [][NextVol]_vars

BreakoutCallOK == call.op = "DetectVolumeBreakout" /\ result.err = NoError

\* VMA of the latest bar, as DetectVolumeBreakout reads it
LatestVMA == FDiv(SumVolumes(dataset, Len(dataset) - call.vmaPeriod, Len(dataset) - 1),
                  F(call.vmaPeriod))

LatestVolume == F(Last(dataset).Volume)

C6_Case ==
    /\ BreakoutCallOK
    /\ call.multiplier = F(2)
    /\ FEq(LatestVolume, FMul(F(5), LatestVMA))

\* C6 as stated: the latest volume is 5 times the latest VMA and the
\* multiplier is 2.0, so DetectVolumeBreakout reports extreme / 0.9.
C6_FiveTimesIsExtreme ==
    C6_Case => result.val.Strength = "extreme" /\ result.val.Confidence = Frac(9, 10)

\* C6, amended: with a positive latest volume equal to 5 times the latest VMA
\* and multiplier 2.0 the ratio 5 is below 3 * 2.0 and at least 2 * 2.0, so
\* DetectVolumeBreakout reports a breakout of strength strong with confidence
\* 0.8; extreme / 0.9 is reported exactly when the ratio is at least 6.
C6_FiveTimesIsStrong ==
    /\ (C6_Case /\ FGt(LatestVolume, F(0)))
          => /\ result.val.Type = "breakout"
             /\ result.val.Strength = "strong"
             /\ result.val.Confidence = Frac(8, 10)
    /\ (BreakoutCallOK /\ call.multiplier = F(2))
          => (result.val.Strength = "extreme"
                 <=> FGe(LatestVolume, FMul(F(6), LatestVMA)) /\ FGt(LatestVMA, F(0)))

\* six bars of volume 1 and a bar of volume 25, VMA over 6 bars: 30 / 6 = 5
C6_Witness ==
    /\ C6_Case
    /\ call.vmaPeriod = 6
    /\ Last(dataset).Volume = 25
    /\ LatestVMA = F(5)
    /\ result.val.Trend = "bullish"

VolumeCallOK == call.op = "CalculateVolumeAnalysis" /\ result.err = NoError

FlatVolumeAndClose ==
    \A k \in 1 .. Len(dataset) :
        /\ dataset[k].Volume = dataset[1].Volume
        /\ dataset[k].Close = dataset[1].Close

C7_Case == VolumeCallOK /\ FlatVolumeAndClose

Seed == F(dataset[1].Volume)

\* C7 as stated: on flat volume and flat close every point has OBV, VPT and
\* ADL equal to the seed and VROC equal to 0.
C7_NoDrift ==
    C7_Case =>
        \A k \in 1 .. Len(result.res) :
            /\ result.res[k].OBV = Seed
            /\ result.res[k].VPT = Seed
            /\ result.res[k].ADL = Seed
            /\ result.res[k].VROC = F(0)

\* bar i adds nothing to ADL: high = low, or close is the midpoint of high
\* and low, or the volume is 0
Balanced(bar) ==
    \/ bar.High = bar.Low
    \/ 2 * bar.Close = bar.High + bar.Low
    \/ bar.Volume = 0

FirstProcessed == Max(call.vmaPeriod, call.vrocPeriod)

RECURSIVE MoneyFlow(_, _, _)
\* the money flow volume of bars first .. last with high # low, added up
MoneyFlow(ds, first, last) ==
    IF last < first THEN F(0)
    ELSE FAdd(MoneyFlow(ds, first, last - 1),
              IF At(ds, last).High # At(ds, last).Low
              THEN FDiv(F((2 * At(ds, last).Close - At(ds, last).High - At(ds, last).Low)
                             * At(ds, last).Volume),
                        F(At(ds, last).High - At(ds, last).Low))
              ELSE F(0))

\* C7, amended: on flat volume and flat close every point has OBV and VPT
\* equal to the seed and VROC equal to 0; ADL at a point is the seed plus the
\* money flow volume of the bars processed so far, so it stays at the seed
\* when every processed bar has high = low or its close at the midpoint of
\* high and low, and it leaves the seed at the first processed bar whose
\* close is off the midpoint.
C7_NoDriftButADL ==
    C7_Case =>
        /\ \A k \in 1 .. Len(result.res) :
              /\ result.res[k].OBV = Seed
              /\ result.res[k].VPT = Seed
              /\ result.res[k].VROC = F(0)
              /\ result.res[k].ADL
                    = FAdd(Seed, MoneyFlow(dataset, FirstProcessed, FirstProcessed + k - 1))
              /\ (\A i \in FirstProcessed .. (FirstProcessed + k - 1) :
                      Balanced(At(dataset, i)))
                    => result.res[k].ADL = Seed
        /\ ~Balanced(At(dataset, FirstProcessed)) => result.res[1].ADL # Seed

\* bars of close 2 and volume 3: the first processed bar has high 4 and low 1
C7_Witness ==
    /\ C7_Case
    /\ Len(result.res) >= 2
    /\ At(dataset, FirstProcessed).High = 4
    /\ At(dataset, FirstProcessed).Low = 1
    /\ result.res[1].ADL = FSub(Seed, F(1))
    /\ result.res[1].OBV = Seed

-----------------------------------------------------------------------------
(* ComprehensiveAnalysis and UltimateAnalysis over series made of a        *)
(* repeated opening (none, flat, or alternating between two bars) and      *)
(* three free bars                                                         *)

FusionPrefixLen == 9

FusionShapes ==
    {Bar(0, 2, 2, 2, 2, 1), Bar(0, 1, 4, 1, 1, 1), Bar(0, 5, 5, 1, 5, 9),
     Bar(0, 6, 8, 5, 6, 9)}

Flat == Repeat(Bar(0, 2, 2, 2, 2, 1), FusionPrefixLen)

Zigzag ==
    [k \in 1 .. FusionPrefixLen |->
        IF k % 2 = 1 THEN Bar(0, 1, 2, 1, 1, 1) ELSE Bar(0, 9, 9, 8, 9, 2)]

FusionSeries ==
    {Stamp(prefix \o <<a, b, c>>) :
        prefix \in {<<>>, Flat, Zigzag}, a \in FusionShapes, b \in FusionShapes,
        c \in FusionShapes}

\* <<smaPeriod, bbPeriod, rsiPeriod>>
FusionPeriods == {<<4, 1, 3>>, <<4, 2, 3>>, <<1, 0, 0>>}

InitFusion ==
    /\ dataset \in FusionSeries
    /\ call = Idle
    /\ result = Idle

CallComprehensiveAnalysis ==
    /\ call = Idle
    /\ \E periods \in FusionPeriods, bbMultiplier \in {Frac(1, 2), F(2)},
          priceType \in {ClosePrice, HighPrice, LowPrice} :
          /\ call' = [op |-> "ComprehensiveAnalysis", smaPeriod |-> periods[1],
                      bbPeriod |-> periods[2], rsiPeriod |-> periods[3],
                      bbMultiplier |-> bbMultiplier, priceType |-> priceType]
          /\ result' = ComprehensiveAnalysis(dataset, periods[1], periods[2], periods[3],
                                             bbMultiplier, priceType)
    /\ UNCHANGED dataset

NextComprehensive == CallComprehensiveAnalysis

SpecComprehensive == InitFusion /\ [][NextComprehensive]_vars


ComprehensiveCallOK ==
    /\ call # Idle
    /\ call.op = "ComprehensiveAnalysis"
    /\ result.err = NoError

\* what the RSI and Bollinger strategies report for the series of the call
RSIStrategyOfCall == AnalyzeRSIStrategy(dataset, call.rsiPeriod, call.priceType)

BollingerStrategyOfCall ==
    AnalyzeBollingerStrategy(dataset, call.bbPeriod, call.bbMultiplier, call.priceType)

ExtremeHighCase ==
    /\ RSIStrategyOfCall.val.Condition = RSIExtremeHigh
    /\ BollingerStrategyOfCall.val.Position = AboveUpperBand

ExtremeLowCase ==
    /\ RSIStrategyOfCall.val.Condition = RSIExtremeLow
    /\ BollingerStrategyOfCall.val.Position = BelowLowerBand

VerdictOf(technical) ==
    Verdict(technical.FinalSignal, technical.Confidence, technical.RiskLevel)

Tags(technical) ==
    <<technical.SMASignal, technical.BollingerSignal, technical.RSISignal>>

BullishVotes(technical) == BullishCount(Tags(technical))

BearishVotes(technical) == BearishCount(Tags(technical))

\* C4: when the RSI condition is extreme_high and the Bollinger position is
\* above_upper, ComprehensiveAnalysis answers STRONG SELL / HIGH / HIGH whatever
\* the votes are; extreme_low with below_lower gives STRONG BUY / HIGH / LOW.
C4_OverrideWins ==
    ComprehensiveCallOK =>
        /\ ExtremeHighCase => VerdictOf(result.val) = Verdict("STRONG SELL", "HIGH", "HIGH")
        /\ ExtremeLowCase => VerdictOf(result.val) = Verdict("STRONG BUY", "HIGH", "LOW")

\* the override has forced STRONG SELL against a bullish majority of the votes
C4_Witness ==
    /\ ComprehensiveCallOK
    /\ ExtremeHighCase
    /\ BullishVotes(result.val) >= 2
    /\ result.val.FinalSignal = "STRONG SELL"

\* the override has forced STRONG SELL over one bullish and one bearish vote
C4_SplitVote ==
    /\ ComprehensiveCallOK
    /\ ExtremeHighCase
    /\ BullishVotes(result.val) = 1
    /\ BearishVotes(result.val) = 1
    /\ result.val.FinalSignal = "STRONG SELL"

\* the override has forced STRONG BUY although the votes did not give it
C4_LowOverride ==
    /\ ComprehensiveCallOK
    /\ ExtremeLowCase
    /\ BullishVotes(result.val) < 3
    /\ result.val.FinalSignal = "STRONG BUY"

\* the first error of the constituent engines, in the order they are called
FirstEngineError ==
    LET errors == <<IsPriceAboveSMA(dataset, call.smaPeriod, call.priceType).err,
                    SMACrossover(dataset, GoDiv(call.smaPeriod, 2), call.smaPeriod,
                                 call.priceType).err,
                    BollingerStrategyOfCall.err,
                    RSIStrategyOfCall.err>>
        failed == {k \in 1 .. 4 : errors[k] # NoError}
    IN  IF failed = {} THEN NoError
        ELSE errors[CHOOSE k \in failed : \A j \in failed : k <= j]

\* C5: ComprehensiveAnalysis returns the first error raised by a constituent
\* engine together with the zero-value result, and never fuses a
\* recommendation from an engine that failed.
C5_FirstErrorPropagates ==
    (call # Idle /\ call.op = "ComprehensiveAnalysis" /\ FirstEngineError # NoError) =>
        /\ result.err = FirstEngineError
        /\ result.val = NoTechnical

\* an engine has failed and the call still answers nil with a recommendation
\* fused from the zero values of the failed engines
C5_Witness ==
    /\ call # Idle
    /\ call.op = "ComprehensiveAnalysis"
    /\ RSIStrategyOfCall.err # NoError
    /\ BollingerStrategyOfCall.err # NoError
    /\ result.err = NoError
    /\ result.val.FinalSignal = "HOLD"
    /\ result.val.RSISignal = ""

\* C9: absent the extreme-condition override, the verdict follows the vote
\* table: 3 bullish -> STRONG BUY/HIGH/LOW, 2 bullish -> BUY/MEDIUM/LOW,
\* 3 bearish -> STRONG SELL/HIGH/HIGH, 2 bearish -> SELL/MEDIUM/MEDIUM, no
\* majority and Bollinger wait_for_breakout -> WAIT/HIGH/LOW, else
\* HOLD/LOW/MEDIUM.
C9_VoteTable ==
    (ComprehensiveCallOK /\ ~ExtremeHighCase /\ ~ExtremeLowCase) =>
        VerdictOf(result.val) =
            IF BullishVotes(result.val) = 3 THEN Verdict("STRONG BUY", "HIGH", "LOW")
            ELSE IF BullishVotes(result.val) = 2 THEN Verdict("BUY", "MEDIUM", "LOW")
            ELSE IF BearishVotes(result.val) = 3
            THEN Verdict("STRONG SELL", "HIGH", "HIGH")
            ELSE IF BearishVotes(result.val) = 2 THEN Verdict("SELL", "MEDIUM", "MEDIUM")
            ELSE IF result.val.BollingerSignal = "wait_for_breakout"
            THEN Verdict("WAIT", "HIGH", "LOW")
            ELSE Verdict("HOLD", "LOW", "MEDIUM")

NoOverride == ComprehensiveCallOK /\ ~ExtremeHighCase /\ ~ExtremeLowCase

\* two bullish votes and one that is not, answered BUY / MEDIUM / LOW
C9_Witness ==
    /\ NoOverride
    /\ BullishVotes(result.val) = 2
    /\ VerdictOf(result.val) = Verdict("BUY", "MEDIUM", "LOW")

C9_RowStrongBuy == NoOverride /\ BullishVotes(result.val) = 3

C9_RowStrongSell == NoOverride /\ BearishVotes(result.val) = 3

C9_RowSell == NoOverride /\ BearishVotes(result.val) = 2

C9_RowWait == NoOverride /\ result.val.FinalSignal = "WAIT"

C9_RowHold == NoOverride /\ result.val.FinalSignal = "HOLD"

VMAPeriods == {0, 2, 5}

\* Long series for the accumulation/distribution detector, which needs ten
\* results of CalculateVolumeAnalysis(dataset, 10, 5), that is 20 bars or more.
\* Every volume is 120, a multiple of every close, so VPT stays an integer.
LongPrefixLen == 2 * FusionPrefixLen

\* closes at the high of the bar: the money flow multiplier is +1
Up(close) == Bar(0, close, close, close - 1, close, 120)

\* closes at the low of the bar: the money flow multiplier is -1
Down(close) == Bar(0, close, close + 1, close, close, 120)

LongSeries ==
    {Stamp([k \in 1 .. LongPrefixLen |-> IF k % 2 = 1 THEN Up(2) ELSE Up(3)] \o tail) :
        tail \in {<<Up(4), Up(5), Up(6)>>, <<Up(4), Up(4), Up(3)>>}}
    \cup
    {Stamp([k \in 1 .. LongPrefixLen |-> IF k % 2 = 1 THEN Down(5) ELSE Down(4)] \o tail) :
        tail \in {<<Down(3), Down(2), Down(1)>>, <<Down(3), Down(3), Down(4)>>}}

\* A sell-off: closes alternate between 10 and 7, then 10, 7, 2 with ten times
\* the volume on the last bar.  Every window of three closes has a deviation
\* that is a rational multiple of sqrt(2), and 140 is a multiple of every
\* close.
SellOff ==
    Stamp([k \in 1 .. LongPrefixLen |->
              IF k % 2 = 1 THEN Bar(0, 10, 11, 10, 10, 140) ELSE Bar(0, 7, 8, 7, 7, 140)]
          \o <<Bar(0, 10, 11, 10, 10, 140), Bar(0, 7, 8, 7, 7, 140),
               Bar(0, 2, 3, 2, 2, 1400)>>)

UltimateSeries == FusionSeries \cup LongSeries \cup {SellOff}

\* <<smaPeriod, bbPeriod, rsiPeriod>>: on a long series the RSI period is the
\* prefix length, so that Wilder's smoothing runs three steps and its
\* fractions stay within 32-bit integers
UltimatePeriods(ds) ==
    IF ds = SellOff THEN {<<4, 3, LongPrefixLen>>}
    ELSE IF Len(ds) > LongPrefixLen THEN {<<4, 2, LongPrefixLen>>}
    ELSE FusionPeriods

UltimateMultipliers(ds) == IF ds = SellOff THEN {F(1)} ELSE {Frac(1, 2), F(2)}

InitUltimate ==
    /\ dataset \in UltimateSeries
    /\ call = Idle
    /\ result = Idle

CallUltimateAnalysis ==
    /\ call = Idle
    /\ \E periods \in UltimatePeriods(dataset), vmaPeriod \in VMAPeriods,
          bbMultiplier \in UltimateMultipliers(dataset) :
          /\ call' = [op |-> "UltimateAnalysis", smaPeriod |-> periods[1],
                      bbPeriod |-> periods[2], rsiPeriod |-> periods[3],
                      vmaPeriod |-> vmaPeriod, bbMultiplier |-> bbMultiplier]
          /\ result' = UltimateAnalysis(dataset, periods[1], periods[2], periods[3],
                                        vmaPeriod, bbMultiplier)
    /\ UNCHANGED dataset

NextUltimate == CallUltimateAnalysis

SpecUltimate == InitUltimate /\ [][NextUltimate]_vars

UltimateCallOK ==
    /\ call # Idle
    /\ call.op = "UltimateAnalysis"
    /\ result.err = NoError

BuyFamily ==
    /\ result.val.Technical.FinalSignal \in {"STRONG BUY", "BUY"}
    /\ result.val.Volume.Signal \in {"strong_buy", "buy", "accumulate"}

SellFamily ==
    /\ result.val.Technical.FinalSignal \in {"STRONG SELL", "SELL"}
    /\ result.val.Volume.Signal \in {"strong_sell", "sell", "distribute"}

QuietWait ==
    /\ result.val.Technical.FinalSignal = "WAIT"
    /\ FLt(result.val.Volume.VolumeRatio, F(1))

\* C10: VolumeConfirm is true exactly when a buy-family technical signal meets
\* a buy-family volume signal, a sell-family technical signal meets a
\* sell-family volume signal, or the technical signal is WAIT and the volume
\* ratio is below 1.0.
C10_VolumeConfirm ==
    UltimateCallOK => (result.val.VolumeConfirm <=> (BuyFamily \/ SellFamily \/ QuietWait))

\* a WAIT confirmed by a last volume below its moving average
C10_Witness == UltimateCallOK /\ QuietWait /\ result.val.VolumeConfirm

C10_BuyConfirmed == UltimateCallOK /\ BuyFamily /\ result.val.VolumeConfirm

C10_SellConfirmed == UltimateCallOK /\ SellFamily /\ result.val.VolumeConfirm

C10_AccumulateConfirmed ==
    /\ UltimateCallOK
    /\ result.val.Volume.Signal = "accumulate"
    /\ result.val.VolumeConfirm

C10_DistributeConfirmed ==
    /\ UltimateCallOK
    /\ result.val.Volume.Signal = "distribute"
    /\ result.val.VolumeConfirm

\* a technical BUY that the volume engine does not back
C10_Unconfirmed ==
    /\ UltimateCallOK
    /\ result.val.Technical.FinalSignal \in {"STRONG BUY", "BUY"}
    /\ ~result.val.VolumeConfirm


NoLowVolumeAlert == UltimateCallOK /\ result.val.Volume.Signal # "low_volume_alert"

Raised(confidence) ==
    IF confidence = "LOW" THEN "MEDIUM"
    ELSE IF confidence = "MEDIUM" THEN "HIGH"
    ELSE confidence

Lowered(confidence) ==
    IF confidence = "HIGH" THEN "MEDIUM"
    ELSE IF confidence = "MEDIUM" THEN "LOW"
    ELSE confidence

\* C11: without a low_volume_alert, a confirmed call keeps the technical signal
\* and raises the confidence one notch; an unconfirmed call lowers the
\* confidence one notch, turns STRONG BUY / STRONG SELL at HIGH into BUY / SELL
\* and turns every signal at MEDIUM into HOLD.
C11_OneNotch ==
    NoLowVolumeAlert =>
        IF result.val.VolumeConfirm
        THEN /\ result.val.FinalSignal = result.val.Technical.FinalSignal
             /\ result.val.Confidence = Raised(result.val.Technical.Confidence)
        ELSE /\ result.val.Confidence = Lowered(result.val.Technical.Confidence)
             /\ result.val.FinalSignal =
                    IF result.val.Technical.Confidence = "HIGH"
                    THEN IF result.val.Technical.FinalSignal = "STRONG BUY" THEN "BUY"
                         ELSE IF result.val.Technical.FinalSignal = "STRONG SELL"
                         THEN "SELL"
                         ELSE result.val.Technical.FinalSignal
                    ELSE IF result.val.Technical.Confidence = "MEDIUM" THEN "HOLD"
                    ELSE result.val.Technical.FinalSignal

\* an unconfirmed STRONG signal at HIGH confidence, downgraded
C11_Witness ==
    /\ NoLowVolumeAlert
    /\ ~result.val.VolumeConfirm
    /\ result.val.Technical.FinalSignal \in {"STRONG BUY", "STRONG SELL"}
    /\ result.val.Technical.Confidence = "HIGH"
    /\ result.val.FinalSignal \in {"BUY", "SELL"}
    /\ result.val.Confidence = "MEDIUM"

C11_ConfirmedMedium ==
    /\ NoLowVolumeAlert
    /\ result.val.VolumeConfirm
    /\ result.val.Technical.Confidence = "MEDIUM"
    /\ result.val.Confidence = "HIGH"

C11_ConfirmedHigh ==
    /\ NoLowVolumeAlert
    /\ result.val.VolumeConfirm
    /\ result.val.Technical.Confidence = "HIGH"

C11_ConfirmedLow ==
    /\ NoLowVolumeAlert
    /\ result.val.VolumeConfirm
    /\ result.val.Technical.Confidence = "LOW"

C11_UnconfirmedMedium ==
    /\ NoLowVolumeAlert
    /\ ~result.val.VolumeConfirm
    /\ result.val.Technical.Confidence = "MEDIUM"
    /\ result.val.FinalSignal = "HOLD"

C11_UnconfirmedWait ==
    /\ NoLowVolumeAlert
    /\ ~result.val.VolumeConfirm
    /\ result.val.Technical.FinalSignal = "WAIT"

\* C12: a low_volume_alert makes the answer SUSPICIOUS / LOW / HIGH whatever
\* the technical signal, the confirmation and the adjustment were, and
\* SUSPICIOUS is answered in no other case.
C12_Suspicious ==
    UltimateCallOK =>
        /\ result.val.Volume.Signal = "low_volume_alert"
              => /\ result.val.FinalSignal = "SUSPICIOUS"
                 /\ result.val.Confidence = "LOW"
                 /\ result.val.RiskLevel = "HIGH"
        /\ result.val.FinalSignal = "SUSPICIOUS"
              => result.val.Volume.Signal = "low_volume_alert"

\* a technical BUY or SELL overridden by the alert
C12_Witness ==
    /\ UltimateCallOK
    /\ result.val.Volume.Signal = "low_volume_alert"
    /\ result.val.Technical.FinalSignal \in {"STRONG BUY", "BUY", "STRONG SELL", "SELL"}
    /\ result.val.FinalSignal = "SUSPICIOUS"

\* a confirmed WAIT overridden by the alert
C12_ConfirmedWait ==
    /\ UltimateCallOK
    /\ result.val.Volume.Signal = "low_volume_alert"
    /\ result.val.VolumeConfirm
    /\ result.val.FinalSignal = "SUSPICIOUS"

\* ---- the rug-pull grade ----

Distributing == UltimateCallOK /\ result.val.Volume.AccumulationSignal.Type = "distribution"

HeavySellOff ==
    /\ Distributing
    /\ result.val.Volume.Signal = "strong_sell"
    /\ FGt(result.val.Volume.VolumeRatio, F(3))

HighRule == Distributing /\ result.val.Technical.FinalSignal = "STRONG SELL"

MediumRule ==
    /\ UltimateCallOK
    /\ \/ result.val.Volume.Signal = "distribute"
       \/ /\ FGt(result.val.Volume.VolumeRatio, F(2))
          /\ result.val.Technical.FinalSignal = "SELL"

C13_MediumDistribute ==
    /\ UltimateCallOK
    /\ result.val.Volume.Signal = "distribute"
    /\ result.val.RugPullRisk = "medium"

\* no rule matches
C13_Low == UltimateCallOK /\ ~Distributing /\ ~MediumRule /\ result.val.RugPullRisk = "low"

-----------------------------------------------------------------------------
(* SMACrossover over series of two bar shapes, and the same call repeated   *)
(* with the two periods exchanged                                           *)

CrossShapes == {Bar(0, 1, 3, 1, 1, 1), Bar(0, 2, 4, 2, 3, 1)}

InitCrossover ==
    /\ dataset \in {Stamp(s) : s \in SeqsUpTo(CrossShapes, 0, MaxLen)}
    /\ call = Idle
    /\ result = Idle

CallSMACrossover ==
    /\ call = Idle
    /\ \E fastPeriod \in 0 .. MaxPeriod, slowPeriod \in 0 .. MaxPeriod,
          priceType \in {ClosePrice, HighPrice} :
          /\ call' = [op |-> "SMACrossover", fastPeriod |-> fastPeriod,
                      slowPeriod |-> slowPeriod, priceType |-> priceType]
          /\ result' = SMACrossover(dataset, fastPeriod, slowPeriod, priceType)
    /\ UNCHANGED dataset

\* the caller repeats the call with the roles of the two periods exchanged;
\* the answer of the first call is kept in `first`
CallSMACrossoverSwapped ==
    /\ call.op = "SMACrossover"
    /\ call' = [op |-> "SMACrossoverSwapped", fastPeriod |-> call.slowPeriod,
                slowPeriod |-> call.fastPeriod, priceType |-> call.priceType,
                first |-> result]
    /\ result' = SMACrossover(dataset, call.slowPeriod, call.fastPeriod, call.priceType)
    /\ UNCHANGED dataset

NextCrossover == CallSMACrossover \/ CallSMACrossoverSwapped

SpecCrossover == InitCrossover /\ [][NextCrossover]_vars

CrossoverCall == call.op = "SMACrossover"

EnoughBars == CrossoverCall /\ call.fastPeriod < call.slowPeriod /\ Len(dataset) >= call.slowPeriod + 1

\* the mean of the selected price over the `period` bars ending `back` bars
\* before the last one
MeanEnding(back, period) ==
    FDiv(WindowTotal(dataset, Len(dataset) - back - period, period, call.priceType),
         F(period))

FastPrev == MeanEnding(1, call.fastPeriod)
SlowPrev == MeanEnding(1, call.slowPeriod)
FastCur == MeanEnding(0, call.fastPeriod)
SlowCur == MeanEnding(0, call.slowPeriod)

CrossesUp == FLe(FastPrev, SlowPrev) /\ FGt(FastCur, SlowCur)
CrossesDown == FGe(FastPrev, SlowPrev) /\ FLt(FastCur, SlowCur)

CrossoverTagRule ==
    /\ result.err = NoError
    /\ result.val \in {"bullish_crossover", "bearish_crossover", "no_signal"}
    /\ result.val = "bullish_crossover" <=> CrossesUp
    /\ result.val = "bearish_crossover" <=> CrossesDown

\* C14: with 0 < fastPeriod < slowPeriod and at least slowPeriod+1 bars the
\* answer is bullish_crossover iff fastPrev <= slowPrev and fastCur > slowCur,
\* bearish_crossover iff fastPrev >= slowPrev and fastCur < slowCur, no_signal
\* otherwise, the four values being the means over the windows ending at the
\* last two bars; fastPeriod >= slowPeriod, fewer than slowPeriod+1 bars, and
\* a fastPeriod of 0 or less each give an error and no tag.
C14_Crossover ==
    CrossoverCall =>
        /\ EnoughBars /\ call.fastPeriod > 0 => CrossoverTagRule
        /\ EnoughBars /\ call.fastPeriod <= 0
              => result = [val |-> "", err |-> "period must be greater than 0"]
        /\ ~EnoughBars => result.err # NoError /\ result.val = ""

\* a crossing that starts from equal averages
C14_Witness ==
    /\ EnoughBars
    /\ call.fastPeriod > 0
    /\ FEq(FastPrev, SlowPrev)
    /\ result = [val |-> "bullish_crossover", err |-> NoError]

\* C14 as stated: fastPeriod < slowPeriod and slowPeriod+1 bars are enough for
\* one of the three tags.
C14_AnyFastPeriod ==
    CrossoverCall =>
        /\ EnoughBars => CrossoverTagRule
        /\ ~EnoughBars => result.err # NoError

C14_Bearish == EnoughBars /\ result = [val |-> "bearish_crossover", err |-> NoError]

C14_NoSignal ==
    /\ EnoughBars
    /\ call.fastPeriod > 0
    /\ ~FEq(FastCur, SlowCur)
    /\ result = [val |-> "no_signal", err |-> NoError]

C14_ZeroFastPeriod ==
    /\ EnoughBars
    /\ call.fastPeriod = 0
    /\ result.err = "period must be greater than 0"

C14_PeriodsOutOfOrder ==
    /\ CrossoverCall
    /\ call.fastPeriod > call.slowPeriod
    /\ Len(dataset) > call.fastPeriod
    /\ result.err = "fast period must be less than slow period"

C14_TooFewBars ==
    /\ CrossoverCall
    /\ 0 < call.fastPeriod
    /\ call.fastPeriod < call.slowPeriod
    /\ Len(dataset) = call.slowPeriod
    /\ result.err = "insufficient data for crossover analysis"

SwappedCall == call.op = "SMACrossoverSwapped"

\* C15: when the call with fast = a and slow = b answers bullish_crossover,
\* the call on the same series with fast = b and slow = a does not.
C15_Antisymmetric ==
    SwappedCall /\ call.first.val = "bullish_crossover"
        => result.val # "bullish_crossover"

\* the exchanged call is turned down for the order of its periods
C15_Witness ==
    /\ SwappedCall
    /\ call.first = [val |-> "bullish_crossover", err |-> NoError]
    /\ call.fastPeriod > call.slowPeriod
    /\ result = [val |-> "", err |-> "fast period must be less than slow period"]

-----------------------------------------------------------------------------
(* GetPricePosition, BollingerBreakout, BollingerSqueeze and                *)
(* AnalyzeBollingerStrategy over candles whose close differs from their     *)
(* high                                                                     *)

PositionShapes ==
    {Bar(0, 1, 3, 1, 2, 1), Bar(0, 2, 2, 2, 2, 1), Bar(0, 4, 5, 2, 3, 1),
     Candle(Bar(0, 1, 3, 1, 2, 1), "high")}

PositionPeriods == 0 .. (MaxBBLen + 1)

PositionMultipliers == {F(0), Frac(1, 2), F(2)}

Tolerances == {F(0), Frac(2, 100), Frac(1, 2)}

InitPosition ==
    /\ dataset \in {Stamp(s) : s \in SeqsUpTo(PositionShapes, 0, MaxBBLen)}
    /\ call = Idle
    /\ result = Idle

CallGetPricePosition ==
    /\ call = Idle
    /\ \E period \in PositionPeriods, multiplier \in PositionMultipliers,
          priceType \in {ClosePrice, HighPrice}, tolerance \in Tolerances :
          /\ call' = [op |-> "GetPricePosition", period |-> period,
                      multiplier |-> multiplier, priceType |-> priceType,
                      tolerance |-> tolerance]
          /\ result' = GetPricePosition(dataset, period, multiplier, priceType, tolerance)
    /\ UNCHANGED dataset

CallBollingerBreakout ==
    /\ call = Idle
    /\ \E period \in PositionPeriods, multiplier \in PositionMultipliers,
          priceType \in {ClosePrice, HighPrice} :
          /\ call' = [op |-> "BollingerBreakout", period |-> period,
                      multiplier |-> multiplier, priceType |-> priceType]
          /\ result' = BollingerBreakout(dataset, period, multiplier, priceType)
    /\ UNCHANGED dataset

\* periods of at most 2 keep every band width rational
SqueezePeriods == 0 .. 2

Lookbacks == {2, 10}

CallBollingerSqueeze ==
    /\ call = Idle
    /\ \E period \in SqueezePeriods, multiplier \in PositionMultipliers,
          priceType \in {ClosePrice, HighPrice}, lookback \in Lookbacks :
          /\ call' = [op |-> "BollingerSqueeze", period |-> period,
                      multiplier |-> multiplier, priceType |-> priceType,
                      lookback |-> lookback]
          /\ result' = BollingerSqueeze(dataset, period, multiplier, priceType, lookback)
    /\ UNCHANGED dataset

CallAnalyzeBollingerStrategy ==
    /\ call = Idle
    /\ \E period \in PositionPeriods, multiplier \in PositionMultipliers,
          priceType \in {ClosePrice, HighPrice} :
          /\ call' = [op |-> "AnalyzeBollingerStrategy", period |-> period,
                      multiplier |-> multiplier, priceType |-> priceType]
          /\ result' = AnalyzeBollingerStrategy(dataset, period, multiplier, priceType)
    /\ UNCHANGED dataset

NextPosition ==
    \/ CallGetPricePosition
    \/ CallBollingerBreakout
    \/ CallBollingerSqueeze
    \/ CallAnalyzeBollingerStrategy

SpecPosition == InitPosition /\ [][NextPosition]_vars

PositionCallOK == call.op = "GetPricePosition" /\ result.err = NoError

LatestBand ==
    GetLatestBollingerBands(dataset, call.period, call.multiplier, call.priceType).val

LastClose == RF(F(Last(dataset).Close))

UpperTolerance == RScale(FSub(F(1), call.tolerance), LatestBand.UpperBand)
LowerTolerance == RScale(FAdd(F(1), call.tolerance), LatestBand.LowerBand)

\* C16: the tag is chosen for the last bar's close, whatever price the bands
\* were built from, by the first matching rule of: close > upper ->
\* above_upper; close < lower -> below_lower; close >= upper*(1-t) ->
\* touching_upper; close <= lower*(1+t) -> touching_lower; otherwise
\* between_bands.
C16_Position ==
    PositionCallOK =>
        /\ result.val \in {AboveUpperBand, BelowLowerBand, TouchingUpper,
                           TouchingLower, BetweenBands}
        /\ result.val =
              IF RGt(LastClose, LatestBand.UpperBand) THEN AboveUpperBand
              ELSE IF RLt(LastClose, LatestBand.LowerBand) THEN BelowLowerBand
              ELSE IF RGe(LastClose, UpperTolerance) THEN TouchingUpper
              ELSE IF RLe(LastClose, LowerTolerance) THEN TouchingLower
              ELSE BetweenBands

\* bands built from the highs; the last close lies below the lower band while
\* the last high does not
C16_Witness ==
    /\ PositionCallOK
    /\ call.priceType = HighPrice
    /\ RGe(RF(F(Last(dataset).High)), LatestBand.LowerBand)
    /\ result.val = BelowLowerBand

C16_AboveUpper == PositionCallOK /\ result.val = AboveUpperBand

\* both tolerance rules match: the upper one is taken
C16_TouchingUpperFirst ==
    /\ PositionCallOK
    /\ RLe(LastClose, LowerTolerance)
    /\ RGt(LatestBand.UpperBand, LatestBand.LowerBand)
    /\ result.val = TouchingUpper

C16_TouchingLower == PositionCallOK /\ result.val = TouchingLower

C16_Between == PositionCallOK /\ result.val = BetweenBands

\* ---- too little history for the band detectors ----

WellFormed == \A k \in 1 .. Len(dataset) : ~Malformed(dataset[k])

ValidBandCall == call.period > 0 /\ FGt(call.multiplier, F(0)) /\ WellFormed

BreakoutCall == call.op = "BollingerBreakout" /\ ValidBandCall

\* C17: with a valid period and multiplier, every series of fewer than
\* period+1 bars makes BollingerBreakout answer insufficient_data and no error.
C17_InsufficientData ==
    BreakoutCall /\ Len(dataset) < call.period + 1
        => result = [val |-> "insufficient_data", err |-> NoError]

\* two bars or more, fewer than the period: the current position is asked for
\* first and fails
C17_Witness ==
    /\ BreakoutCall
    /\ Len(dataset) >= 2
    /\ Len(dataset) < call.period
    /\ result = [val |-> "", err |-> "period cannot be greater than dataset length"]

\* exactly `period` bars: the check on the shortened series answers
C17_ExactlyPeriodBars ==
    /\ BreakoutCall
    /\ Len(dataset) >= 2
    /\ Len(dataset) = call.period
    /\ result = [val |-> "insufficient_data", err |-> NoError]

C17_OneBar ==
    /\ BreakoutCall
    /\ Len(dataset) = 1
    /\ call.period > 1
    /\ result = [val |-> "insufficient_data", err |-> NoError]

SqueezeCall == call.op = "BollingerSqueeze" /\ ValidBandCall /\ call.period <= Len(dataset)

BandCount == Len(dataset) - call.period + 1

\* C18: when the band series of a valid call has fewer points than the
\* lookback, BollingerSqueeze answers without an error.
C18_SqueezeSentinel ==
    SqueezeCall /\ BandCount < call.lookback => result.err = NoError

C18_Witness ==
    /\ SqueezeCall
    /\ BandCount > 0
    /\ BandCount < call.lookback
    /\ result = [val |-> FALSE, err |-> "insufficient data for squeeze analysis"]

\* enough bands: an answer and no error
C18_EnoughBands ==
    /\ SqueezeCall
    /\ BandCount >= call.lookback
    /\ result.err = NoError

\* position and breakout are answered, and the strategy fails on the squeeze
C18_StrategyFails ==
    /\ call.op = "AnalyzeBollingerStrategy"
    /\ ValidBandCall
    /\ BollingerBreakout(dataset, call.period, call.multiplier, call.priceType).err = NoError
    /\ result = [val |-> NoBollingerStrategy,
                 err |-> "insufficient data for squeeze analysis"]

-----------------------------------------------------------------------------
(* DetectAccumulationDistribution over series of 0 to 3 repeated blocks of  *)
(* one bar and a free tail                                                  *)

AccumulationSeries ==
    {Stamp(Repeat(bar, blocks * VolPrefixLen) \o tail) :
        bar \in {Bar(0, 2, 4, 1, 2, 3), Bar(0, 1, 2, 1, 1, 1), Bar(0, 2, 3, 2, 3, 25)},
        blocks \in 0 .. 3,
        tail \in SeqsUpTo(VolShapes, 0, MaxVolTail)}

InitAccumulation ==
    /\ dataset \in AccumulationSeries
    /\ call = Idle
    /\ result = Idle

CallDetectAccumulationDistribution ==
    /\ call = Idle
    /\ \E lookback \in {0, 5, 7} :
          /\ call' = [op |-> "DetectAccumulationDistribution", lookback |-> lookback]
          /\ result' = DetectAccumulationDistribution(dataset, lookback)
    /\ UNCHANGED dataset

NextAccumulation == CallDetectAccumulationDistribution

SpecAccumulation == InitAccumulation /\ [][NextAccumulation]_vars

AccumulationCall == call.op = "DetectAccumulationDistribution" /\ Len(dataset) > 0

RaisedLookback == IF call.lookback < 5 THEN 5 ELSE call.lookback

\* CalculateVolumeAnalysis(dataset, 10, 5) gives one point for each bar after
\* the tenth
TooLittleHistory == Len(dataset) - 10 < RaisedLookback

InsufficientData ==
    [val |-> VolumeSignal("insufficient_data", "", "", F(0)), err |-> NoError]

\* C19: every non-empty series that cannot supply `lookback` ADL points (the
\* lookback raised to 5 at least), series of 10 bars or fewer included, makes
\* DetectAccumulationDistribution answer type insufficient_data and no error.
C19_InsufficientData ==
    AccumulationCall /\ TooLittleHistory => result = InsufficientData

\* one to ten bars: the error of CalculateVolumeAnalysis is returned
C19_Witness ==
    /\ AccumulationCall
    /\ Len(dataset) <= 10
    /\ result = [val |-> VolumeSignal("", "", "", F(0)), err |-> "insufficient data"]

\* more than ten bars and fewer points than the lookback
C19_FewPoints ==
    /\ AccumulationCall
    /\ Len(dataset) > 10
    /\ TooLittleHistory
    /\ result = InsufficientData

C19_EnoughPoints ==
    /\ AccumulationCall
    /\ ~TooLittleHistory
    /\ result.err = NoError
    /\ result.val.Type \in {"accumulation", "distribution", "neutral"}

-----------------------------------------------------------------------------
(* DetectRSIDivergence over series of two close prices                      *)

MaxDivergenceLen == 8

DivergenceSeries ==
    {Stamp(s) : s \in SeqsUpTo({RSIBar(1), RSIBar(3)}, 0, MaxDivergenceLen)}

InitDivergence ==
    /\ dataset \in DivergenceSeries
    /\ call = Idle
    /\ result = Idle

CallDetectRSIDivergence ==
    /\ call = Idle
    /\ \E period \in 0 .. 3, lookback \in {2, 5, 6, 7},
          priceType \in {ClosePrice, HighPrice} :
          /\ call' = [op |-> "DetectRSIDivergence", period |-> period,
                      priceType |-> priceType, lookback |-> lookback]
          /\ result' = DetectRSIDivergence(dataset, period, priceType, lookback)
    /\ UNCHANGED dataset

NextDivergence == CallDetectRSIDivergence

SpecDivergence == InitDivergence /\ [][NextDivergence]_vars

\* CalculateRSI succeeds: a positive period and more bars than the period
DivergenceCall ==
    /\ call.op = "DetectRSIDivergence"
    /\ call.period > 0
    /\ Len(dataset) > call.period

\* CalculateRSI gives one point for each bar after the first `period` bars
RSIPointCount == Len(dataset) - call.period

RaisedDivergenceLookback == IF call.lookback < 5 THEN 5 ELSE call.lookback

\* C20: a lookback below 5 counts as 5, and when CalculateRSI succeeds with
\* fewer points than the (raised) lookback the answer is Type none, Strength
\* insufficient_data, Confidence 0 and no error; with at least that many
\* points the answer is not insufficient_data.
C20_InsufficientData ==
    DivergenceCall =>
        /\ result.err = NoError
        /\ RSIPointCount < RaisedDivergenceLookback
              => result.val = RSIDivergence("none", "insufficient_data", F(0))
        /\ RSIPointCount >= RaisedDivergenceLookback
              => result.val.Strength # "insufficient_data"

\* a lookback of 2 with 2 to 4 RSI points: too few for the raised lookback
C20_Witness ==
    /\ DivergenceCall
    /\ call.lookback = 2
    /\ RSIPointCount >= 2
    /\ RSIPointCount < 5
    /\ result = [val |-> RSIDivergence("none", "insufficient_data", F(0)),
                 err |-> NoError]

\* a lookback of 2 with 5 points is analysed over 5 points
C20_RaisedAndEnough ==
    /\ DivergenceCall
    /\ call.lookback = 2
    /\ RSIPointCount = 5
    /\ result.val.Strength \in {"none", "regular"}

C20_LargerLookback ==
    /\ DivergenceCall
    /\ call.lookback = 7
    /\ RSIPointCount \in {5, 6}
    /\ result.val.Strength = "insufficient_data"

-----------------------------------------------------------------------------
(* The four engine entry points over the same series                        *)

NextEngines ==
    \/ CallCalculateSMA
    \/ CallCalculateBollingerBands
    \/ CallCalculateRSI
    \/ CallCalculateVolumeAnalysis

SpecEngines == InitSMA /\ [][NextEngines]_vars

Rejected == result.err # NoError /\ result.res = <<>>

InvalidSMAInput ==
    /\ call.op = "CalculateSMA"
    /\ (Len(dataset) = 0 \/ call.period <= 0 \/ call.period > Len(dataset))

InvalidBandInput ==
    /\ call.op = "CalculateBollingerBands"
    /\ \/ Len(dataset) = 0
       \/ call.period <= 0
       \/ call.period > Len(dataset)
       \/ FLe(call.multiplier, F(0))

InvalidRSIInput ==
    /\ call.op = "CalculateRSI"
    /\ (Len(dataset) = 0 \/ call.period <= 0 \/ call.period >= Len(dataset))

InvalidVolumeInput ==
    /\ call.op = "CalculateVolumeAnalysis"
    /\ \/ Len(dataset) = 0
       \/ call.vmaPeriod <= 0
       \/ call.vrocPeriod <= 0
       \/ Len(dataset) <= Max(call.vmaPeriod, call.vrocPeriod)

InvalidInput == InvalidSMAInput \/ InvalidBandInput \/ InvalidRSIInput \/ InvalidVolumeInput

\* C21: each of CalculateSMA, CalculateBollingerBands, CalculateRSI and
\* CalculateVolumeAnalysis answers an empty series, a period <= 0, a period
\* too long for the series (> len for SMA and bands, >= len for RSI, len <=
\* max(vmaPeriod, vrocPeriod) for volume) or a multiplier <= 0 with an error
\* and a nil result; an error never comes with points, and a valid input is
\* answered without error.
C21_FailFast ==
    call # Idle =>
        /\ InvalidInput => Rejected
        /\ result.err # NoError => result.res = <<>>
        /\ ~InvalidInput => result.err = NoError /\ result.res # <<>>

\* a period one longer than the series, turned down by CalculateSMA
C21_Witness ==
    /\ call.op = "CalculateSMA"
    /\ Len(dataset) > 0
    /\ call.period = Len(dataset) + 1
    /\ Rejected

\* a period equal to the length is too long for CalculateRSI only
C21_RSIPeriodIsLength ==
    /\ call.op = "CalculateRSI"
    /\ call.period = Len(dataset)
    /\ call.period > 0
    /\ result = [res |-> <<>>, err |-> "period must be less than dataset length"]

C21_BandMultiplier ==
    /\ call.op = "CalculateBollingerBands"
    /\ call.period > 0
    /\ call.period <= Len(dataset)
    /\ call.multiplier = F(0)
    /\ result = [res |-> <<>>, err |-> "multiplier must be greater than 0"]

C21_VolumeTooShort ==
    /\ call.op = "CalculateVolumeAnalysis"
    /\ call.vmaPeriod > 0
    /\ call.vrocPeriod > 0
    /\ Len(dataset) = Max(call.vmaPeriod, call.vrocPeriod)
    /\ result = [res |-> <<>>, err |-> "insufficient data"]

C21_Accepted == call # Idle /\ ~InvalidInput /\ result.err = NoError

-----------------------------------------------------------------------------
(* Each of the six engines called twice on the same series with the same    *)
(* parameters                                                               *)

TwiceSeries ==
    {Stamp(s) : s \in SeqsUpTo(SMAShapes, 0, MaxVolLen)}
        \cup {Stamp(Zigzag \o <<a, a, c>>) : a \in FusionShapes, c \in FusionShapes}

InitTwice ==
    /\ dataset \in TwiceSeries
    /\ call = Idle
    /\ result = Idle

\* the answer of the engine named by the call `c` on the series `ds`
EngineResult(ds, c) ==
    CASE c.op = "CalculateSMA" -> CalculateSMA(ds, c.period, c.priceType)
      [] c.op = "CalculateBollingerBands"
            -> CalculateBollingerBands(ds, c.period, c.multiplier, c.priceType)
      [] c.op = "CalculateRSI" -> CalculateRSI(ds, c.period, c.priceType)
      [] c.op = "CalculateVolumeAnalysis"
            -> CalculateVolumeAnalysis(ds, c.vmaPeriod, c.vrocPeriod)
      [] c.op = "ComprehensiveAnalysis"
            -> ComprehensiveAnalysis(ds, c.smaPeriod, c.bbPeriod, c.rsiPeriod,
                                     c.bbMultiplier, c.priceType)
      [] c.op = "UltimateAnalysis"
            -> UltimateAnalysis(ds, c.smaPeriod, c.bbPeriod, c.rsiPeriod, c.vmaPeriod,
                                c.bbMultiplier)

\* a second call after an engine that had kept the newest bars only
CallEngineAgainOnTrimmedSeries ==
    /\ call # Idle
    /\ call.op # "again"
    /\ Len(dataset) > 0
    /\ dataset' = Tail(dataset)
    /\ call' = [op |-> "again", first |-> call, answer |-> result]
    /\ result' = EngineResult(dataset', call)

\* the second call: the engines keep nothing between calls and only read the
\* series, so it sees the series and the parameters of the first call
CallEngineAgain ==
    /\ call # Idle
    /\ call.op # "again"
    /\ call' = [op |-> "again", first |-> call, answer |-> result]
    /\ result' = EngineResult(dataset, call)
    /\ UNCHANGED dataset

NextTwice ==
    \/ CallCalculateSMA
    \/ CallCalculateBollingerBands
    \/ CallCalculateRSI
    \/ CallCalculateVolumeAnalysis
    \/ CallComprehensiveAnalysis
    \/ CallUltimateAnalysis
    \/ CallEngineAgain

SpecTwice == InitTwice /\ [][NextTwice]_vars

CalledTwice == call.op = "again"

C22_RSITwice ==
    /\ CalledTwice
    /\ call.first.op = "CalculateRSI"
    /\ Len(call.answer.res) > 2
    /\ Len(result.res) > 2

C22_VolumeTwice ==
    /\ CalledTwice
    /\ call.first.op = "CalculateVolumeAnalysis"
    /\ Len(result.res) > 2

-----------------------------------------------------------------------------
(* CalculateVolumeAnalysis over bars as a caller may pass them: OHLCV       *)
(* values are not validated, so a close may lie outside low .. high and a   *)
(* high below the low                                                       *)

MoneyFlowShapes ==
    {Bar(0, 2, 4, 1, 2, 3), Bar(0, 2, 3, 2, 3, 25), Bar(0, 4, 3, 1, 5, 3),
     Bar(0, 2, 1, 3, 2, 3)}

InitMoneyFlow ==
    /\ dataset \in {Stamp(s) : s \in SeqsUpTo(MoneyFlowShapes, 0, MaxVolLen)}
    /\ call = Idle
    /\ result = Idle

NextMoneyFlow == CallCalculateVolumeAnalysis

SpecMoneyFlow == InitMoneyFlow /\ [][NextMoneyFlow]_vars

MoneyFlowCallOK == call.op = "CalculateVolumeAnalysis" /\ result.err = NoError

\* the bar that result point k (from 1) was computed for
ProcessedBar(k) == dataset[Max(call.vmaPeriod, call.vrocPeriod) + k]

\* ADL before point k: the seed for the first point
ADLBefore(k) == IF k = 1 THEN F(dataset[1].Volume) ELSE result.res[k - 1].ADL

ADLChange(k) == FSub(result.res[k].ADL, ADLBefore(k))

InUnitRange(x) == FGe(x, F(-1)) /\ FLe(x, F(1))

\* C23: for every processed bar with high # low the money-flow multiplier
\* lies in [-1, 1], and the ADL changes by at most the bar's volume.
C23_MultiplierInRange ==
    MoneyFlowCallOK =>
        \A k \in 1 .. Len(result.res) :
            ProcessedBar(k).High # ProcessedBar(k).Low
                => /\ InUnitRange(MoneyFlowMultiplier(ProcessedBar(k)))
                   /\ FLe(ADLChange(k), F(ProcessedBar(k).Volume))
                   /\ FGe(ADLChange(k), F(-ProcessedBar(k).Volume))

\* a processed bar of high 3, low 1, close 5 and volume 3 moves the ADL by 9
C23_Witness ==
    /\ MoneyFlowCallOK
    /\ \E k \in 1 .. Len(result.res) :
          /\ ProcessedBar(k) = [Bar(0, 4, 3, 1, 5, 3) EXCEPT !.Timestamp = ProcessedBar(k).Timestamp]
          /\ ADLChange(k) = F(9)

\* bars whose close lies within low .. high stay in range
C23_ConsistentBars ==
    /\ MoneyFlowCallOK
    /\ Len(result.res) > 1
    /\ \A k \in 1 .. Len(result.res) :
          /\ ProcessedBar(k).Low < ProcessedBar(k).High
          /\ ProcessedBar(k).Low <= ProcessedBar(k).Close
          /\ ProcessedBar(k).Close <= ProcessedBar(k).High
          /\ InUnitRange(MoneyFlowMultiplier(ProcessedBar(k)))

-----------------------------------------------------------------------------
(* The RSI recursion, written out from the selected prices, over series of *)
(* up to MaxDivergenceLen bars                                              *)

\* CalculateRSI over the series of two close prices
SpecWilder == InitDivergence /\ [][NextRSI]_vars

\* change j (from 0) is the price of bar j+1 less the price of bar j
ChangeAt(j) ==
    FSub(ExtractPrice(At(dataset, j + 1), call.priceType),
         ExtractPrice(At(dataset, j), call.priceType))

GainAt(j) == IF FGt(ChangeAt(j), F(0)) THEN ChangeAt(j) ELSE F(0)

LossAt(j) == IF FGt(ChangeAt(j), F(0)) THEN F(0) ELSE FNeg(ChangeAt(j))

RECURSIVE GainTotal(_)
GainTotal(count) == IF count = 0 THEN F(0) ELSE FAdd(GainTotal(count - 1), GainAt(count - 1))

RECURSIVE LossTotal(_)
LossTotal(count) == IF count = 0 THEN F(0) ELSE FAdd(LossTotal(count - 1), LossAt(count - 1))

RECURSIVE AverageGain(_)
\* the average gain behind point k (from 0): the mean of the first `period`
\* gains, then k Wilder updates
AverageGain(k) ==
    IF k = 0 THEN FDiv(GainTotal(call.period), F(call.period))
    ELSE FDiv(FAdd(FMul(AverageGain(k - 1), F(call.period - 1)),
                   GainAt(call.period + k - 1)),
              F(call.period))

RECURSIVE AverageLoss(_)
AverageLoss(k) ==
    IF k = 0 THEN FDiv(LossTotal(call.period), F(call.period))
    ELSE FDiv(FAdd(FMul(AverageLoss(k - 1), F(call.period - 1)),
                   LossAt(call.period + k - 1)),
              F(call.period))

RelativeStrength(k) ==
    IF FEq(AverageLoss(k), F(0)) THEN F(100) ELSE FDiv(AverageGain(k), AverageLoss(k))

ValueAt(k) == FSub(F(100), FDiv(F(100), FAdd(F(1), RelativeStrength(k))))

\* C24: CalculateRSI emits len(series) - period points; point k (from 0) has
\* the timestamp of bar period+k and the value 100 - 100/(1+RS) of the
\* averages seeded with the mean of the first `period` gains and losses and
\* updated k times by avg' = (avg*(period-1) + sample)/period with the gain and
\* loss of change period+k-1, a change <= 0 giving gain 0 and loss |change|.
C24_WilderRecursion ==
    RSICallOK =>
        /\ Len(result.res) = Len(dataset) - call.period
        /\ \A k \in 0 .. (Len(result.res) - 1) :
              /\ At(result.res, k).Timestamp
                    = Format(At(dataset, call.period + k).Timestamp)
              /\ FEq(At(result.res, k).Value, ValueAt(k))

\* three points of period 2 with gains and losses on both sides of the seed
C24_Witness ==
    /\ RSICallOK
    /\ call.period = 2
    /\ Len(result.res) = 3
    /\ FGt(GainTotal(2), F(0))
    /\ FGt(LossTotal(2), F(0))
    /\ At(result.res, 0).Value # At(result.res, 1).Value
    /\ At(result.res, 1).Value # At(result.res, 2).Value
    /\ FEq(At(result.res, 2).Value, ValueAt(2))

\* C25: whenever the seeded or smoothed average loss behind a point is 0, a
\* flat series with average gain 0 included, the point's value is
\* 100 - 100/101, not 100.
C25_SentinelValue ==
    RSICallOK =>
        \A k \in 0 .. (Len(result.res) - 1) :
            FEq(AverageLoss(k), F(0))
                => /\ At(result.res, k).Value = FSub(F(100), FDiv(F(100), F(101)))
                   /\ At(result.res, k).Value # F(100)

FlatSeries ==
    \A k \in 1 .. Len(dataset) :
        ExtractPrice(dataset[k], call.priceType) = ExtractPrice(dataset[1], call.priceType)

\* a flat series: average gain and average loss are both 0 at every point
C25_Witness ==
    /\ RSICallOK
    /\ FlatSeries
    /\ Len(result.res) >= 3
    /\ \A k \in 0 .. (Len(result.res) - 1) :
          /\ FEq(AverageGain(k), F(0))
          /\ FEq(AverageLoss(k), F(0))
          /\ At(result.res, k).Value = Frac(10000, 101)

\* a smoothed average loss that returns to 0 after a loss (period 1)
C25_SmoothedZero ==
    /\ RSICallOK
    /\ Len(result.res) >= 2
    /\ FGt(AverageLoss(0), F(0))
    /\ FEq(AverageLoss(1), F(0))
    /\ At(result.res, 1).Value = Frac(10000, 101)

\* a seeded average loss of 0 with gains
C25_SeededZero ==
    /\ RSICallOK
    /\ call.period >= 2
    /\ FGt(AverageGain(0), F(0))
    /\ FEq(AverageLoss(0), F(0))
    /\ At(result.res, 0).Value = Frac(10000, 101)

-----------------------------------------------------------------------------
(* DetectRSIDivergence over series whose highs follow one of two patterns   *)
(* and whose closes are free over a cycle of four bars                     *)

HighPatterns ==
    {<<3, 3, 4, 3, 5, 4, 5, 3, 4, 3>>, <<3, 4, 3, 5, 3, 5, 4, 5, 3, 4>>}

\* the closes repeat every four bars
PeakSeries ==
    {Stamp([k \in 1 .. n |->
               Bar(0, closes[k % 4], highs[k], 1, closes[k % 4], 1)]) :
        highs \in HighPatterns, n \in 0 .. MaxDivergenceLen,
        closes \in [0 .. 3 -> {1, 2}]}

InitPeaks ==
    /\ dataset \in PeakSeries
    /\ call = Idle
    /\ result = Idle

SpecPeaks == InitPeaks /\ [][NextDivergence]_vars

EnoughPoints == DivergenceCall /\ RSIPointCount >= RaisedDivergenceLookback

\* point i (from 0) of the last `lookback` RSI points, and the close of the
\* bar at the same place among the last `lookback` bars
RecentRSI(i) == ValueAt(RSIPointCount - RaisedDivergenceLookback + i)
RecentClose(i) == F(At(dataset, Len(dataset) - RaisedDivergenceLookback + i).Close)

Interior == 1 .. (RaisedDivergenceLookback - 2)

Peaks ==
    {i \in Interior :
        FGt(RecentRSI(i), RecentRSI(i - 1)) /\ FGt(RecentRSI(i), RecentRSI(i + 1))}

Troughs ==
    {i \in Interior :
        FLt(RecentRSI(i), RecentRSI(i - 1)) /\ FLt(RecentRSI(i), RecentRSI(i + 1))}

Latest(S) == CHOOSE i \in S : \A j \in S : j <= i
Before(S) == Latest(S \ {Latest(S)})

BearishPattern ==
    /\ Cardinality(Peaks) >= 2
    /\ FGt(RecentClose(Latest(Peaks)), RecentClose(Before(Peaks)))
    /\ FLt(RecentRSI(Latest(Peaks)), RecentRSI(Before(Peaks)))

BullishPattern ==
    /\ Cardinality(Troughs) >= 2
    /\ FLt(RecentClose(Latest(Troughs)), RecentClose(Before(Troughs)))
    /\ FGt(RecentRSI(Latest(Troughs)), RecentRSI(Before(Troughs)))

\* min(1, |RSI difference| / 10) for the last two extremes of S
PatternConfidence(S) ==
    IF FGt(FAbs(FSub(RecentRSI(Latest(S)), RecentRSI(Before(S)))), F(10)) THEN F(1)
    ELSE FDiv(FAbs(FSub(RecentRSI(Latest(S)), RecentRSI(Before(S)))), F(10))

ConfidenceInRange == FGe(result.val.Confidence, F(0)) /\ FLe(result.val.Confidence, F(1))

\* C26: peaks and troughs are the interior points of the last `lookback` RSI
\* points strictly above or below both neighbours, paired with the closes of
\* the last `lookback` bars; the answer is bearish when the last two peaks
\* show a higher price and a lower RSI, otherwise bullish when the last two
\* troughs show a lower price and a higher RSI, otherwise none; the peaks are
\* looked at first, so both patterns together give bearish.  The confidence is
\* min(1, |RSI difference|/10), within 0 .. 1.
C26_Divergence ==
    EnoughPoints =>
        /\ result.err = NoError
        /\ ConfidenceInRange
        /\ result.val =
              IF BearishPattern
              THEN RSIDivergence("bearish", "regular", PatternConfidence(Peaks))
              ELSE IF BullishPattern
              THEN RSIDivergence("bullish", "regular", PatternConfidence(Troughs))
              ELSE RSIDivergence("none", "none", F(0))

\* both patterns in one window: the answer is bearish
C26_Witness ==
    /\ EnoughPoints
    /\ BearishPattern
    /\ BullishPattern
    /\ result.val.Type = "bearish"

\* C26 as stated: bearish iff the peak pattern holds, bullish iff the trough
\* pattern holds, none otherwise.
C26_EachPatternReported ==
    EnoughPoints =>
        /\ result.val.Type = "bearish" <=> BearishPattern
        /\ result.val.Type = "bullish" <=> BullishPattern
        /\ result.val.Type = "none" <=> ~BearishPattern /\ ~BullishPattern
        /\ ConfidenceInRange

C26_Bullish ==
    /\ EnoughPoints
    /\ BullishPattern
    /\ result.val = RSIDivergence("bullish", "regular", PatternConfidence(Troughs))

C26_FullConfidence ==
    /\ EnoughPoints
    /\ result.val.Type = "bearish"
    /\ result.val.Confidence = F(1)

C26_PartConfidence ==
    /\ EnoughPoints
    /\ result.val.Type # "none"
    /\ FLt(result.val.Confidence, F(1))
    /\ FGt(result.val.Confidence, F(0))

C26_None ==
    /\ EnoughPoints
    /\ Cardinality(Peaks) >= 2
    /\ result.val = RSIDivergence("none", "none", F(0))

-----------------------------------------------------------------------------
(* The running totals of CalculateVolumeAnalysis, point by point            *)

MaxOfPeriods == Max(call.vmaPeriod, call.vrocPeriod)

\* the index (from 0) of the bar behind result point k (from 1)
BarOf(k) == MaxOfPeriods + k - 1

\* a running total before point k: the first bar's volume before the first
TotalBefore(k, field) ==
    IF k = 1 THEN F(At(dataset, 0).Volume) ELSE result.res[k - 1][field]

OBVChange(k) == FSub(result.res[k].OBV, TotalBefore(k, "OBV"))

SignedVolume(k) ==
    IF At(dataset, BarOf(k)).Close > At(dataset, BarOf(k) - 1).Close
    THEN F(At(dataset, BarOf(k)).Volume)
    ELSE IF At(dataset, BarOf(k)).Close < At(dataset, BarOf(k) - 1).Close
    THEN F(-At(dataset, BarOf(k)).Volume)
    ELSE F(0)

PriceTrendVolume(k) ==
    IF At(dataset, BarOf(k) - 1).Close = 0 THEN F(0)
    ELSE FDiv(F(At(dataset, BarOf(k)).Volume
                  * (At(dataset, BarOf(k)).Close - At(dataset, BarOf(k) - 1).Close)),
              F(At(dataset, BarOf(k) - 1).Close))

MoneyFlowVolume(k) ==
    IF At(dataset, BarOf(k)).High = At(dataset, BarOf(k)).Low THEN F(0)
    ELSE FDiv(F(At(dataset, BarOf(k)).Volume
                  * (2 * At(dataset, BarOf(k)).Close - At(dataset, BarOf(k)).High
                       - At(dataset, BarOf(k)).Low)),
              F(At(dataset, BarOf(k)).High - At(dataset, BarOf(k)).Low))

\* C27: CalculateVolumeAnalysis emits len(series) - max(vmaPeriod, vrocPeriod)
\* points; OBV, VPT and ADL start at the first bar's volume and take one
\* update for each bar from index max(vmaPeriod, vrocPeriod) on, the bars
\* before it contributing nothing; from one point to the next OBV moves by
\* +volume when the close rose against the previous bar, -volume when it fell
\* and 0 when it is equal.
C27_RunningTotals ==
    VolumeCallOK =>
        /\ Len(result.res) = Len(dataset) - MaxOfPeriods
        /\ \A k \in 1 .. Len(result.res) :
              /\ FEq(OBVChange(k), SignedVolume(k))
              /\ FEq(FSub(result.res[k].VPT, TotalBefore(k, "VPT")), PriceTrendVolume(k))
              /\ FEq(FSub(result.res[k].ADL, TotalBefore(k, "ADL")), MoneyFlowVolume(k))

\* the close moved at bar 1, which lies before the first processed bar: the
\* first OBV is the seed and the signed volume of the processed bar only
C27_Witness ==
    /\ VolumeCallOK
    /\ MaxOfPeriods = 2
    /\ At(dataset, 1).Close # At(dataset, 0).Close
    /\ At(dataset, 1).Volume # 0
    /\ result.res[1].OBV = FAdd(F(At(dataset, 0).Volume), SignedVolume(1))

\* three consecutive points: a rise, a fall and an unchanged close
C27_RiseFallEqual ==
    /\ VolumeCallOK
    /\ \E i \in 1 .. Len(result.res), j \in 1 .. Len(result.res),
          k \in 1 .. Len(result.res) :
          /\ FGt(OBVChange(i), F(0))
          /\ FLt(OBVChange(j), F(0))
          /\ FEq(OBVChange(k), F(0))
          /\ At(dataset, BarOf(k)).Volume > 0

-----------------------------------------------------------------------------
(* Strong final signals of UltimateAnalysis                                *)

StrongSignals == {"STRONG BUY", "STRONG SELL"}

StrongTechnical == UltimateCallOK /\ result.val.Technical.FinalSignal \in StrongSignals

\* C28: in every result of UltimateAnalysis a final signal of STRONG BUY or
\* STRONG SELL comes with VolumeConfirm true and a final confidence of HIGH:
\* a strong technical signal that the volume does not confirm is never
\* answered as strong.
C28_StrongIsConfirmed ==
    UltimateCallOK =>
        /\ result.val.FinalSignal \in StrongSignals =>
              /\ result.val.VolumeConfirm
              /\ result.val.Confidence = "HIGH"
        /\ (StrongTechnical /\ ~result.val.VolumeConfirm) =>
              result.val.FinalSignal \in {"BUY", "SELL", "SUSPICIOUS"}

\* a strong final signal, confirmed by the volume
C28_Witness ==
    /\ StrongTechnical
    /\ result.val.FinalSignal \in StrongSignals
    /\ result.val.VolumeConfirm
    /\ result.val.Confidence = "HIGH"

C28_StrongSellConfirmed ==
    UltimateCallOK /\ result.val.FinalSignal = "STRONG SELL" /\ result.val.VolumeConfirm

\* a strong technical signal without confirmation, answered one step weaker
C28_Downgraded ==
    /\ StrongTechnical
    /\ ~result.val.VolumeConfirm
    /\ result.val.FinalSignal \in {"BUY", "SELL"}
    /\ result.val.Confidence = "MEDIUM"

-----------------------------------------------------------------------------
(* AnalyzeVolumeStrategy under every pairing of its two periods, over      *)
(* series of 0, 2 or 3 repeated blocks of one bar and two free bars         *)

StrategySeries ==
    {Stamp(Repeat(bar, blocks * VolPrefixLen) \o tail) :
        bar \in {Bar(0, 2, 4, 1, 2, 3), Bar(0, 1, 2, 1, 1, 1), Bar(0, 2, 3, 2, 3, 25)},
        blocks \in {0, 2, 3},
        tail \in [1 .. 2 -> VolShapes]}

InitStrategy ==
    /\ dataset \in StrategySeries
    /\ call = Idle
    /\ result = Idle

CallAnalyzeVolumeStrategy ==
    /\ call = Idle
    /\ \E vmaPeriod \in 0 .. 3, vrocPeriod \in {0, 1, 5, 2 * VolPrefixLen + 2} :
          /\ call' = [op |-> "AnalyzeVolumeStrategy", vmaPeriod |-> vmaPeriod,
                      vrocPeriod |-> vrocPeriod]
          /\ result' = AnalyzeVolumeStrategy(dataset, vmaPeriod, vrocPeriod)
    /\ UNCHANGED dataset

NextStrategy == CallAnalyzeVolumeStrategy

SpecStrategy == InitStrategy /\ [][NextStrategy]_vars

StrategyCall == call.op = "AnalyzeVolumeStrategy"

StrategyCallOK == StrategyCall /\ result.err = NoError

RECURSIVE LatestVolumes(_)
\* the volumes of the last count bars, summed
LatestVolumes(count) ==
    IF count = 0 THEN 0
    ELSE dataset[Len(dataset) - count + 1].Volume + LatestVolumes(count - 1)

\* the last bar's volume over the mean volume of the last vmaPeriod bars
LatestVolumeRatio ==
    FDiv(F(Last(dataset).Volume),
         FDiv(F(LatestVolumes(call.vmaPeriod)), F(call.vmaPeriod)))

SameFloat(x, y) == IF IsNaN(x) \/ IsNaN(y) THEN IsNaN(x) /\ IsNaN(y) ELSE FEq(x, y)

\* C29: in every result of AnalyzeVolumeStrategy, whatever the caller's
\* vrocPeriod, BreakoutSignal.Type is breakout exactly when VolumeRatio is 2
\* or more, VolumeRatio being the last volume over the mean of the last
\* vmaPeriod volumes; so low_volume_alert (VolumeRatio below 0.5) never comes
\* with a BreakoutSignal of type breakout.
C29_BreakoutIffRatio ==
    StrategyCallOK =>
        /\ SameFloat(result.val.VolumeRatio, LatestVolumeRatio)
        /\ result.val.BreakoutSignal.Type = "breakout" <=> FGe(LatestVolumeRatio, F(2))
        /\ result.val.BreakoutSignal.Type \in {"breakout", "normal"}
        /\ ~(/\ result.val.Signal = "low_volume_alert"
             /\ result.val.BreakoutSignal.Type = "breakout")

\* a breakout under a vrocPeriod other than the detector's 5
C29_Witness ==
    /\ StrategyCallOK
    /\ call.vrocPeriod # 5
    /\ result.val.BreakoutSignal.Type = "breakout"
    /\ FGe(result.val.VolumeRatio, F(2))

\* a ratio of exactly 2
C29_AtThreshold ==
    /\ StrategyCallOK
    /\ FEq(result.val.VolumeRatio, F(2))
    /\ result.val.BreakoutSignal.Type = "breakout"

C29_LowVolumeAlert ==
    /\ StrategyCallOK
    /\ call.vrocPeriod # 5
    /\ result.val.Signal = "low_volume_alert"
    /\ result.val.BreakoutSignal.Type = "normal"

\* 0/0: the ratio is not a number, neither a breakout nor an alert
C29_NoRatio ==
    /\ StrategyCallOK
    /\ IsNaN(result.val.VolumeRatio)
    /\ result.val.BreakoutSignal.Type = "normal"
    /\ result.val.Signal # "low_volume_alert"

\* the caller's vrocPeriod decides whether there is a result at all
C29_PeriodRejects ==
    /\ StrategyCall
    /\ result.err # NoError
    /\ AnalyzeVolumeStrategy(dataset, call.vmaPeriod, 5).err = NoError

\* two bars are enough for the caller's periods and too few for the detector's
C29_DetectorRejects ==
    /\ StrategyCall
    /\ CalculateVolumeAnalysis(dataset, call.vmaPeriod, call.vrocPeriod).err = NoError
    /\ result.err # NoError

-----------------------------------------------------------------------------
(* The verdicts ComprehensiveAnalysis can answer                           *)

VerdictTriples ==
    {<<"STRONG BUY", "HIGH", "LOW">>, <<"BUY", "MEDIUM", "LOW">>,
     <<"STRONG SELL", "HIGH", "HIGH">>, <<"SELL", "MEDIUM", "MEDIUM">>,
     <<"WAIT", "HIGH", "LOW">>, <<"HOLD", "LOW", "MEDIUM">>}

TripleOf(technical) ==
    <<technical.FinalSignal, technical.Confidence, technical.RiskLevel>>

ComprehensiveCall == call.op = "ComprehensiveAnalysis"

\* C30: every result of ComprehensiveAnalysis carries one of six
\* (FinalSignal, Confidence, RiskLevel) triples, and its SMASignal is one of
\* strong_bullish, bullish, strong_bearish, bearish, never neutral, so that
\* at least one of the three votes is cast.
C30_SixTriples ==
    ComprehensiveCall =>
        /\ result.err = NoError
        /\ TripleOf(result.val) \in VerdictTriples
        /\ result.val.SMASignal \in
              {"strong_bullish", "bullish", "strong_bearish", "bearish"}
        /\ BullishVotes(result.val) + BearishVotes(result.val) >= 1

\* the SMA vote alone: HOLD with one vote cast, by the SMA signal
C30_Witness ==
    /\ ComprehensiveCall
    /\ TripleOf(result.val) = <<"HOLD", "LOW", "MEDIUM">>
    /\ BullishVotes(result.val) + BearishVotes(result.val) = 1
    /\ result.val.SMASignal \in {"bullish", "bearish"}

C30_StrongBuy == ComprehensiveCall /\ TripleOf(result.val) = <<"STRONG BUY", "HIGH", "LOW">>

C30_Buy == ComprehensiveCall /\ TripleOf(result.val) = <<"BUY", "MEDIUM", "LOW">>

C30_StrongSell ==
    ComprehensiveCall /\ TripleOf(result.val) = <<"STRONG SELL", "HIGH", "HIGH">>

C30_Sell == ComprehensiveCall /\ TripleOf(result.val) = <<"SELL", "MEDIUM", "MEDIUM">>

C30_Wait == ComprehensiveCall /\ TripleOf(result.val) = <<"WAIT", "HIGH", "LOW">>

C30_StrongBullish == ComprehensiveCall /\ result.val.SMASignal = "strong_bullish"

C30_StrongBearish == ComprehensiveCall /\ result.val.SMASignal = "strong_bearish"

\* no average could be computed: the SMA signal is bearish all the same
C30_NoAverage ==
    /\ ComprehensiveCall
    /\ CalculateSMA(dataset, call.smaPeriod, call.priceType).err # NoError
    /\ result.val.SMASignal = "bearish"

=============================================================================
